---- MODULE Spec2Model ----
(***************************************************************************)
(* Post-processing of a RadGraph annotation graph into observation records *)
(* (src/radgraph/radgpt.py).                                               *)
(*                                                                         *)
(* Representation.                                                         *)
(*   - A Python str is a sequence of one-character strings.                *)
(*   - An entity id is a positive integer; the entity mapping is a         *)
(*     sequence, so that entity k is the k-th item of annotations.items(). *)
(*     The id Missing (0) is an id that is no key of the mapping.          *)
(*   - A label is the sequence of its "::"-separated parts.                *)
(*   - A relation is <<type, target>>.                                     *)
(*   - A defaultdict(list) is the sequence of its <<key, list>> items in   *)
(*     insertion order (the order Python iterates it in).                  *)
(***************************************************************************)
EXTENDS Integers, Sequences, FiniteSets, TLC

\* ------------------------------------------------------------ bounds
\* Largest number of entities of a document.
NumEntities == 3
\* Largest number of relations (edges) of a document.
MaxEdges == 3
\* Largest number of candidates handed to the substring filter.
MaxCands == 3
\* Number of calls made on one document.
Runs == 2
\* Largest start_ix of the documents whose entities may share offsets.
MaxIx == 2
\* Largest number of (hypothesis, reference) pairs of a batch.
MaxPairs == 4
\* Largest number of workers of a reward server.
MaxWorkers == 3

Missing == 0
Ids == 1..NumEntities

\* ------------------------------------------------------------ Python str
Whitespace == {" ", "\n"}

\* The argument of str.strip at radgpt.py:136 and :175.
StripChars == {"\n", " ", ".", "\"", "'"}

\* str.lower on one character (the model's alphabet has the capitals A, B).
LowerChar(c) ==
    CASE c = "A" -> "a"
      [] c = "B" -> "b"
      [] OTHER -> c

Lower(s) == [i \in 1..Len(s) |-> LowerChar(s[i])]

RECURSIVE LStrip(_)
LStrip(s) ==
    IF s # <<>> /\ Head(s) \in StripChars THEN LStrip(Tail(s)) ELSE s

RECURSIVE RStrip(_)
RStrip(s) ==
    IF s # <<>> /\ s[Len(s)] \in StripChars
    THEN RStrip(SubSeq(s, 1, Len(s) - 1))
    ELSE s

Strip(s) == RStrip(LStrip(s))

\* sep.join(parts)
RECURSIVE Join(_, _)
Join(parts, sep) ==
    IF parts = <<>> THEN <<>>
    ELSE IF Len(parts) = 1 THEN parts[1]
    ELSE parts[1] \o sep \o Join(Tail(parts), sep)

\* The Python test `s in t` on two strings.
IsSubstring(s, t) ==
    \E k \in 0..(Len(t) - Len(s)) : SubSeq(t, k + 1, k + Len(s)) = s

\* str.split(): the maximal runs of non-whitespace characters, in order.
RECURSIVE SplitFrom(_, _, _)
SplitFrom(s, cur, acc) ==
    IF s = <<>> THEN (IF cur = <<>> THEN acc ELSE Append(acc, cur))
    ELSE IF Head(s) \in Whitespace
         THEN SplitFrom(Tail(s), <<>>, IF cur = <<>> THEN acc ELSE Append(acc, cur))
         ELSE SplitFrom(Tail(s), Append(cur, Head(s)), acc)

Split(s) == SplitFrom(s, <<>>, <<>>)

\* set(s.split())
WordSet(s) == {Split(s)[i] : i \in 1..Len(Split(s))}

\* str(n) for n >= 0, as decimal digits.
Digit(n) == CASE n = 0 -> "0" [] n = 1 -> "1" [] n = 2 -> "2" [] n = 3 -> "3"
              [] n = 4 -> "4" [] n = 5 -> "5" [] n = 6 -> "6" [] n = 7 -> "7"
              [] n = 8 -> "8" [] n = 9 -> "9"

RECURSIVE StrOfInt(_)
StrOfInt(n) ==
    IF n < 10 THEN <<Digit(n)>> ELSE Append(StrOfInt(n \div 10), Digit(n % 10))

\* ------------------------------------------------------------ Python list
\* x in l
InList(x, l) == \E i \in 1..Len(l) : l[i] = x

\* The last position of x.
LastIndexOf(l, x) == CHOOSE i \in 1..Len(l) : l[i] = x /\ \A j \in (i + 1)..Len(l) : l[j] # x

\* l.index(x): the first position of x.
IndexOf(l, x) == CHOOSE i \in 1..Len(l) : l[i] = x /\ \A j \in 1..(i - 1) : l[j] # x

\* sorted(l) on integers.
RECURSIVE InsertSorted(_, _)
InsertSorted(x, l) ==
    IF l = <<>> THEN <<x>>
    ELSE IF x < Head(l) THEN <<x>> \o l
    ELSE <<Head(l)>> \o InsertSorted(x, Tail(l))

RECURSIVE Sorted(_)
Sorted(l) ==
    IF l = <<>> THEN <<>>
    ELSE InsertSorted(l[Len(l)], Sorted(SubSeq(l, 1, Len(l) - 1)))

\* The list with its repeats left in.
KeepRepeats(l) == l

\* [x for i, x in enumerate(l) if x not in l[:i]]
RECURSIVE DedupFrom(_, _)
DedupFrom(l, acc) ==
    IF l = <<>> THEN acc
    ELSE DedupFrom(Tail(l), IF InList(Head(l), acc) THEN acc ELSE Append(acc, Head(l)))

\* radgpt.py:130-134
Dedup(l) == DedupFrom(l, <<>>)

\* ------------------------------------------------------------ defaultdict(list)
\* k in d
DictHas(d, k) == \E i \in 1..Len(d) : d[i][1] = k

\* d[k] for a key that is present
DictGet(d, k) == d[CHOOSE i \in 1..Len(d) : d[i][1] = k][2]

\* An append that leaves out a value the list of k already holds.
DictAppendOnce(d, k, x) ==
    IF DictHas(d, k)
    THEN [i \in 1..Len(d) |->
            IF d[i][1] = k /\ ~InList(x, d[i][2]) THEN <<k, Append(d[i][2], x)>> ELSE d[i]]
    ELSE Append(d, <<k, <<x>>>>)

\* d[k].append(x): a missing key is created, at the end, with an empty list.
DictAppend(d, k, x) ==
    IF DictHas(d, k)
    THEN [i \in 1..Len(d) |-> IF d[i][1] = k THEN <<k, Append(d[i][2], x)>> ELSE d[i]]
    ELSE Append(d, <<k, <<x>>>>)

\* d.setdefault(k, v): the value a key already has is kept.
DictSetDefault(d, k, v) == IF DictHas(d, k) THEN d ELSE Append(d, <<k, v>>)

\* d[k] = v
DictSet(d, k, v) ==
    IF DictHas(d, k)
    THEN [i \in 1..Len(d) |-> IF d[i][1] = k THEN <<k, v>> ELSE d[i]]
    ELSE Append(d, <<k, v>>)

\* (k, v) in d.items()
InItems(k, v, d) == \E i \in 1..Len(d) : d[i][1] = k /\ d[i][2] = v

\* ------------------------------------------------------------ labels
\* `name in label` for a label part such as Observation or Anatomy.
\* A test every label passes.
AnyLabel(label, name) == TRUE

HasPart(label, name) == \E i \in 1..Len(label) : label[i] = name

AbsentLabels ==
    {<<"Observation", "definitely absent">>,
     <<"Observation", "measurement", "definitely absent">>}

UncertainLabels ==
    {<<"Observation", "uncertain">>,
     <<"Observation", "measurement", "uncertain">>}

\* ------------------------------------------------------------ recursive_modifier
\* annotations[ind] raises KeyError for an id that is no key of the mapping.
HasEntity(annotations, ind) == ind \in 1..Len(annotations)

\* entity[name] raises KeyError for each name the entity has no field for.
HasFields(entity, names) == names \subseteq DOMAIN entity

\* radgpt.py:70-72, the fields the first loop reads of every entity.
IndexedFields == {"label", "tokens", "relations"}

\* radgpt.py:29-30, the fields read of an entity whose tuple is appended.
TupleFields == {"tokens", "label", "start_ix", "end_ix"}

\* radgpt.py:218, the fields read of every entity after the last record.
LabelMapFields == {"start_ix", "label"}

\* radgpt.py:29-30 raises KeyError unless ind is a key and has the four fields.
HasTuple(annotations, ind) ==
    HasEntity(annotations, ind) /\ HasFields(annotations[ind], TupleFields)

\* The tuple appended at radgpt.py:29.
EntityTuple(annotations, ind) ==
    <<annotations[ind].tokens, annotations[ind].label,
      annotations[ind].start_ix, annotations[ind].end_ix>>

\* The cycle check left out, as in the version commented out at radgpt.py:4-11.
NeverVisited(ind, visited) == FALSE

\* radgpt.py:18, the cycle check.
InVisited(ind, visited) == ind \in visited

\* Only the first id listed under ind is followed.
FirstModifierOf(d, ind) == IF DictHas(d, ind) THEN <<DictGet(d, ind)[1]>> ELSE <<>>

\* The ids listed under ind, last first.
ModifiersReversed(d, ind) ==
    IF DictHas(d, ind)
    THEN [i \in 1..Len(DictGet(d, ind)) |-> DictGet(d, ind)[Len(DictGet(d, ind)) + 1 - i]]
    ELSE <<>>

\* radgpt.py:25-26, the ids listed under ind.
ModifiersOf(d, ind) == IF DictHas(d, ind) THEN DictGet(d, ind) ELSE <<>>

\* recursive_modifier(annotations, ind, d, visited): the tuples returned, the
\* visited set as the call leaves it, and whether KeyError was raised.
RECURSIVE recursive_modifier(_, _, _, _)
RECURSIVE RecurseInto(_, _, _, _, _)
recursive_modifier(annotations, ind, d, visited) ==
    IF InVisited(ind, visited)
    THEN [modifiers |-> <<>>, visited |-> visited, err |-> FALSE]
    ELSE LET sub == RecurseInto(annotations, ModifiersOf(d, ind), d,
                                visited \cup {ind}, <<>>)
         IN  IF sub.err \/ ~HasTuple(annotations, ind)
             THEN [modifiers |-> <<>>, visited |-> sub.visited, err |-> TRUE]
             ELSE [modifiers |-> Append(sub.modifiers, EntityTuple(annotations, ind)),
                   visited |-> sub.visited, err |-> FALSE]

\* The loop of radgpt.py:26-27 over the remaining modifier ids.
RecurseInto(annotations, rest, d, visited, modifiers) ==
    IF rest = <<>>
    THEN [modifiers |-> modifiers, visited |-> visited, err |-> FALSE]
    ELSE LET r == recursive_modifier(annotations, Head(rest), d, visited)
         IN  IF r.err THEN r
             ELSE RecurseInto(annotations, Tail(rest), d, r.visited,
                              modifiers \o r.modifiers)

\* ------------------------------------------------------------ sort_words_by_index
sort_words_by_index(word_list, index_list) ==
    LET s == Sorted(index_list)
    IN  [k \in 1..Len(s) |-> word_list[IndexOf(index_list, s[k])]]

\* ------------------------------------------------------------ filter_loop
\* radgpt.py:42
\* The pair of the key itself with its first modifier.
OppositeOfSelf(k, v) == <<k, <<v[1]>>>>

Opposite(k, v) == <<v[1], <<k>>>>

\* Every key is kept.
AlwaysKeeps(k, v, to_keep) == TRUE

\* radgpt.py:43
KeepsKey(k, v, to_keep) == ~InItems(Opposite(k, v)[1], Opposite(k, v)[2], to_keep)

RECURSIVE filter_loop_from(_, _)
filter_loop_from(items, to_keep) ==
    IF items = <<>> THEN to_keep
    ELSE LET k == Head(items)[1]
             v == Head(items)[2]
         IN  filter_loop_from(Tail(items),
                            IF KeepsKey(k, v, to_keep) THEN DictSet(to_keep, k, v)
                            ELSE to_keep)

filter_loop(d) == filter_loop_from(d, <<>>)

\* ------------------------------------------------------------ relation indexing
\* `name in relation` (radgpt.py:80-92); an id is never a relation name.
IsRelation(name, relation) == relation[1] = name

\* Every observation is a main observation, modifier or not.
IsObservation(entity) == HasPart(entity.label, "Observation")

\* radgpt.py:75
IsMainObservation(entity) ==
    /\ HasPart(entity.label, "Observation")
    /\ ~ \E i \in 1..Len(entity.relations) : entity.relations[i][1] = "modify"

\* radgpt.py:52-56
EmptyDict == <<>>

\* radgpt.py:56
EmptyList == <<>>

\* radgpt.py:80-94 for one relation of entity `index`.
IndexRelation(m, index, label, relation) ==
    LET target == relation[2]
        m1 == IF IsRelation("modify", relation) /\ HasPart(label, "Observation")
              THEN [m EXCEPT !.obs_modified_by_obs = DictAppend(@, target, index)]
              ELSE m
        m2 == IF IsRelation("modify", relation) /\ HasPart(label, "Anatomy")
              THEN [m1 EXCEPT !.anat_modify_anat = DictAppend(@, target, index)]
              ELSE m1
        m3 == IF IsRelation("located_at", relation) /\ HasPart(label, "Observation")
              THEN [m2 EXCEPT !.obs_located_anat = DictAppend(@, index, target)]
              ELSE m2
    IN  IF IsRelation("suggestive_of", relation) /\ HasPart(label, "Observation")
        THEN [m3 EXCEPT !.obs_suggest_obs = DictAppend(@, index, target)]
        ELSE m3

RECURSIVE IndexRelations(_, _, _, _)
IndexRelations(m, index, label, relations) ==
    IF relations = <<>> THEN m
    ELSE IndexRelations(IndexRelation(m, index, label, Head(relations)),
                        index, label, Tail(relations))

\* radgpt.py:69-94 for one entity.
IndexEntity(m, index, entity) ==
    LET m1 == IF IsMainObservation(entity)
              THEN [m EXCEPT !.all_observations =
                        Append(@, <<index, entity.tokens, entity.label>>)]
              ELSE m
    IN  IndexRelations(m1, index, entity.label, entity.relations)

RECURSIVE IndexFrom(_, _, _)
IndexFrom(m, annotations, index) ==
    IF index > Len(annotations) THEN m
    ELSE IndexFrom(IndexEntity(m, index, annotations[index]), annotations, index + 1)


\* ------------------------------------------------------------ substring filter
\* The test of the inner loop without its word-set half.
IsSubstringOnly(item, other_item) == IsSubstring(item, other_item)

\* radgpt.py:186 and :208, the test of the inner loop.
IsCoveredBy(item, other_item) ==
    IsSubstring(item, other_item) /\ WordSet(item) \subseteq WordSet(other_item)

\* radgpt.py:184-188 and :206-210, is_substring after the inner loop.
IsDropped(items, i) ==
    \E j \in 1..Len(items) : i # j /\ IsCoveredBy(items[i], items[j])

\* The positions the outer loop keeps, ascending.
RECURSIVE KeptFrom(_, _, _)
KeptFrom(items, i, kept) ==
    IF i > Len(items) THEN kept
    ELSE KeptFrom(items, i + 1, IF IsDropped(items, i) THEN kept ELSE Append(kept, i))

KeptPositions(items) == KeptFrom(items, 1, <<>>)

\* radgpt.py:180-194 and :204-212: the entries of `values` at the kept positions.
FilterBy(items, values) ==
    [k \in 1..Len(KeptPositions(items)) |-> values[KeptPositions(items)[k]]]

SubstringFilter(items) == FilterBy(items, items)

\* The offset lists of all the phrases, dropped ones included.
StartIxUnfiltered(located_at, located_at_start_ix) == located_at_start_ix

\* radgpt.py:181-194, filtered_located_at_start_ix: the offset list of a phrase
\* is appended when, and only when, the phrase is.
FilteredStartIx(located_at, located_at_start_ix) ==
    FilterBy(located_at, located_at_start_ix)

\* ------------------------------------------------------------ one observation
Column(modifiers, c) == [i \in 1..Len(modifiers) |-> modifiers[i][c]]

\* radgpt.py:15-16: a top-level call starts from a new, empty visited set.
NewVisited == {}

\* The reordered tokens joined at once, repeated tokens kept.
PhraseOfAllTokens(modifiers) ==
    Strip(Lower(Join(sort_words_by_index(Column(modifiers, 1), Column(modifiers, 3)),
                     <<" ">>)))

\* radgpt.py:130-136
ObservationPhrase(modifiers) ==
    Strip(Lower(Join(Dedup(sort_words_by_index(Column(modifiers, 1), Column(modifiers, 3))),
                     <<" ">>)))

\* radgpt.py:171-175
LocationPhrase(modifiers) ==
    Strip(Lower(Join(sort_words_by_index(Column(modifiers, 1), Column(modifiers, 3)),
                     <<" ">>)))

\* The two label tests in the other order.
TagOfUncertainFirst(modifiers_labels) ==
    IF \E l \in UncertainLabels : InList(l, modifiers_labels) THEN "uncertain"
    ELSE IF \E l \in AbsentLabels : InList(l, modifiers_labels) THEN "definitely absent"
    ELSE "definitely present"

\* radgpt.py:141-150
TagOf(modifiers_labels) ==
    IF \E l \in AbsentLabels : InList(l, modifiers_labels) THEN "definitely absent"
    ELSE IF \E l \in UncertainLabels : InList(l, modifiers_labels) THEN "uncertain"
    ELSE "definitely present"

\* The value None of record["suggestive_of"], and a list value.
NoneValue == [none |-> TRUE]

\* An empty list turned into None.
NoneIfEmpty(l) == IF l = <<>> THEN NoneValue ELSE [none |-> FALSE, items |-> l]

ListValue(l) == [none |-> FALSE, items |-> l]

\* radgpt.py:164-177: the closures of the located_at targets, in target order.
RECURSIVE AnatomyClosures(_, _, _, _)
AnatomyClosures(annotations, anats_index, anat_modify_anat, acc) ==
    IF anats_index = <<>> THEN [err |-> FALSE, closures |-> acc]
    ELSE LET r == recursive_modifier(annotations, Head(anats_index), anat_modify_anat,
                                    NewVisited)
         IN  IF r.err THEN [err |-> TRUE, closures |-> acc]
             ELSE AnatomyClosures(annotations, Tail(anats_index), anat_modify_anat,
                                  Append(acc, r.modifiers))

\* radgpt.py:117-216, the rest of one iteration of the loop over
\* all_observations once the call of line 115 has returned rm: the record
\* appended, or err when a KeyError leaves the function.
RecordFrom(annotations, m, observation, rm) ==
    LET observation_index == observation[1]
        tokens == observation[2]
        modifiers == rm.modifiers
        has_loc == DictHas(m.obs_located_anat, observation_index)
        anats == IF has_loc
                 THEN AnatomyClosures(annotations,
                                      DictGet(m.obs_located_anat, observation_index),
                                      m.anat_modify_anat, <<>>)
                 ELSE [err |-> FALSE, closures |-> <<>>]
        located_at == [i \in 1..Len(anats.closures) |-> LocationPhrase(anats.closures[i])]
        located_at_start_ix ==
            [i \in 1..Len(anats.closures) |-> Sorted(Column(anats.closures[i], 3))]
        has_sug == DictHas(m.obs_suggest_obs, observation_index)
        targets == IF has_sug THEN DictGet(m.obs_suggest_obs, observation_index) ELSE <<>>
        sug_err == \E i \in 1..Len(targets) : ~HasEntity(annotations, targets[i])
        suggestive_of_records ==
            [i \in 1..Len(targets) |->
                tokens \o <<" ", "s", "u", "g", "g", "e", "s", "t", "i", "v", "e",
                            " ", "o", "f", " ">> \o annotations[targets[i]].tokens]
    IN  IF rm.err \/ anats.err \/ sug_err
        THEN [err |-> TRUE]
        ELSE [err |-> FALSE,
              record |->
                [observation |-> ObservationPhrase(modifiers),
                 observation_start_ix |-> Dedup(Sorted(Column(modifiers, 3))),
                 observation_end_ix |-> Dedup(Sorted(Column(modifiers, 4))),
                 tags |-> <<TagOf(Column(modifiers, 2))>>,
                 located_at |-> FilterBy(located_at, located_at),
                 located_at_start_ix |-> FilteredStartIx(located_at, located_at_start_ix),
                 suggestive_of |-> IF has_sug
                                   THEN ListValue(SubstringFilter(suggestive_of_records))
                                   ELSE NoneValue]]

\* radgpt.py:103-216, one iteration of the loop over all_observations.
BuildRecord(annotations, m, observation) ==
    RecordFrom(annotations, m, observation,
               recursive_modifier(annotations, observation[1], m.obs_modified_by_obs,
                                  NewVisited))

\* radgpt.py:218
RECURSIVE StartIxToLabelFrom(_, _, _)
StartIxToLabelFrom(annotations, i, acc) ==
    IF i > Len(annotations) THEN acc
    ELSE StartIxToLabelFrom(annotations, i + 1,
                            DictSet(acc, StrOfInt(annotations[i].start_ix),
                                    annotations[i].label))

StartIxToLabel(annotations) == StartIxToLabelFrom(annotations, 1, <<>>)

\* ------------------------------------------------------------ state
VARIABLES
    doc,                    \* radgraph_annotations["0"]: [entities, text]
    pc,                     \* position of get_radgraph_processed_annotations
    run,                    \* number of calls started on doc
    run_limit,              \* number of calls made on doc
    obs_modified_by_obs,    \* the five locals of radgpt.py:52-56
    obs_located_anat,
    obs_suggest_obs,
    anat_modify_anat,
    all_observations,
    processed_observations, \* radgpt.py:100
    out,                    \* what the last call returned (or raised)
    prev_out,               \* what the call before it returned
    rm_d,                   \* recursive_modifier alone: its argument d,
    rm_start,               \*   the id of the top-level call,
    rm_pc,                  \*   the position of the innermost call,
    rm_arg,                 \*   the id a call is being made with,
    rm_val,                 \*   the list a call has just returned,
    rm_stack,               \*   the frames [ind, rest, modifiers] of the open calls,
    rm_visited,             \*   the shared visited set,
    rm_visits,              \*   calls that passed the visited check,
    rm_steps,               \*   steps taken,
    rm_out,                 \*   the list the top-level call returned,
    cands,                  \* substring filter alone: the candidate list,
    filtered,               \*   and the filter's results
    word_list,              \* sort_words_by_index alone: its two arguments
    index_list,
    sorted_words,           \*   and what it returned
    frames,                 \* concurrent calls: the frame of each invocation,
    visited_sets,           \*   and the visited set of its recursive_modifier call
    hyps,                   \* compute_rewards: its arguments,
    refs,
    num_workers,            \*   self.num_workers,
    srv_pc,                 \*   its position,
    srv_i,                  \*   the loop variable i of ray_worker.py:32,
    futures,                \*   the futures appended so far, as [worker, start, end],
    results,                \*   what each task returned, once it has,
    finished,               \*   the futures in the order their tasks finished,
    all_rewards             \*   what compute_rewards returned

pipeVars == <<pc, run, run_limit, obs_modified_by_obs, obs_located_anat, obs_suggest_obs,
              anat_modify_anat, all_observations, processed_observations, out, prev_out>>
rmVars == <<rm_d, rm_start, rm_pc, rm_arg, rm_val, rm_stack, rm_visited, rm_visits,
            rm_steps, rm_out>>
filterVars == <<cands, filtered>>
sortVars == <<word_list, index_list, sorted_words>>
concVars == <<frames, visited_sets>>
serverVars == <<hyps, refs, num_workers, srv_pc, srv_i, futures, results, finished,
                all_rewards>>
vars == <<doc, pipeVars, rmVars, filterVars, sortVars, concVars, serverVars>>

\* ------------------------------------------------------------ get_radgraph_processed_annotations
NotCalled == [status |-> "not called"]
Raised == [status |-> "KeyError"]

\* The locals kept from the call before, as module-level containers would be.
StaleLocals ==
    [obs_modified_by_obs |-> obs_modified_by_obs, obs_located_anat |-> obs_located_anat,
     obs_suggest_obs |-> obs_suggest_obs, anat_modify_anat |-> anat_modify_anat,
     all_observations |-> all_observations]

\* radgpt.py:52-56: the locals a call starts from.
FreshLocals ==
    [obs_modified_by_obs |-> EmptyDict, obs_located_anat |-> EmptyDict,
     obs_suggest_obs |-> EmptyDict, anat_modify_anat |-> EmptyDict,
     all_observations |-> EmptyList]

\* The input handed back without the relations the first loop has read.
ReturnedConsumed(processed, radgraph_annotations) ==
    [status |-> "returned",
     processed_annotations |-> processed,
     radgraph_annotations |->
        [radgraph_annotations EXCEPT !.entities =
            [k \in 1..Len(@) |-> [@[k] EXCEPT !.relations = <<>>]]],
     start_ix_to_label |-> StartIxToLabel(radgraph_annotations.entities),
     radgraph_text |-> radgraph_annotations.text]

\* radgpt.py:218-223, the dict returned.
ReturnedDict(processed, radgraph_annotations) ==
    [status |-> "returned",
     processed_annotations |-> processed,
     radgraph_annotations |-> radgraph_annotations,
     start_ix_to_label |-> StartIxToLabel(radgraph_annotations.entities),
     radgraph_text |-> radgraph_annotations.text]

\* radgpt.py:49-94: a call starts and runs the first loop over all entities; a
\* KeyError at lines 70-72 ends the call.
Index ==
    /\ pc = "idle"
    /\ run < run_limit
    /\ IF \A k \in 1..Len(doc.entities) : HasFields(doc.entities[k], IndexedFields)
       THEN LET m == IndexFrom(FreshLocals, doc.entities, 1)
            IN  /\ obs_modified_by_obs' = m.obs_modified_by_obs
                /\ obs_located_anat' = m.obs_located_anat
                /\ obs_suggest_obs' = m.obs_suggest_obs
                /\ anat_modify_anat' = m.anat_modify_anat
                /\ all_observations' = m.all_observations
                /\ pc' = "indexed"
                /\ UNCHANGED <<out, prev_out>>
       ELSE /\ pc' = "idle"
            /\ out' = Raised
            /\ prev_out' = out
            /\ UNCHANGED <<obs_modified_by_obs, obs_located_anat, obs_suggest_obs,
                           anat_modify_anat, all_observations>>
    /\ run' = run + 1
    /\ UNCHANGED <<doc, run_limit, processed_observations, rmVars, filterVars,
                   sortVars, concVars, serverVars>>

\* radgpt.py:96-100
Filter ==
    /\ pc = "indexed"
    /\ obs_modified_by_obs' = filter_loop(obs_modified_by_obs)
    /\ anat_modify_anat' = filter_loop(anat_modify_anat)
    /\ processed_observations' = <<>>
    /\ pc' = "observing"
    /\ UNCHANGED <<doc, run, run_limit, obs_located_anat, obs_suggest_obs,
                   all_observations, out, prev_out, rmVars, filterVars,
                   sortVars, concVars, serverVars>>

Maps ==
    [obs_modified_by_obs |-> obs_modified_by_obs, obs_located_anat |-> obs_located_anat,
     obs_suggest_obs |-> obs_suggest_obs, anat_modify_anat |-> anat_modify_anat]

\* radgpt.py:102-216: one iteration of the loop over all_observations; a KeyError
\* ends the call.
Observe ==
    /\ pc = "observing"
    /\ Len(processed_observations) < Len(all_observations)
    /\ LET r == BuildRecord(doc.entities, Maps,
                            all_observations[Len(processed_observations) + 1])
       IN  IF r.err
           THEN /\ pc' = "idle"
                /\ out' = Raised
                /\ prev_out' = out
                /\ UNCHANGED processed_observations
           ELSE /\ processed_observations' = Append(processed_observations, r.record)
                /\ UNCHANGED <<pc, out, prev_out>>
    /\ UNCHANGED <<doc, run, run_limit, obs_modified_by_obs, obs_located_anat,
                   obs_suggest_obs, anat_modify_anat, all_observations, rmVars, filterVars,
                   sortVars, concVars, serverVars>>

\* radgpt.py:218-223; a KeyError at line 218 ends the call.
Return ==
    /\ pc = "observing"
    /\ Len(processed_observations) = Len(all_observations)
    /\ out' = IF \A k \in 1..Len(doc.entities) : HasFields(doc.entities[k], LabelMapFields)
              THEN ReturnedDict(processed_observations, doc)
              ELSE Raised
    /\ prev_out' = out
    /\ pc' = "idle"
    /\ UNCHANGED <<doc, run, run_limit, obs_modified_by_obs, obs_located_anat,
                   obs_suggest_obs, anat_modify_anat, all_observations,
                   processed_observations, rmVars, filterVars,
                   sortVars, concVars, serverVars>>

PipeNext == Index \/ Filter \/ Observe \/ Return

\* ------------------------------------------------------------ recursive_modifier, step by step
\* radgpt.py:14-23: a call is entered; it returns [] at once on a visited id.
RMEnter ==
    /\ rm_pc = "call"
    /\ IF InVisited(rm_arg, rm_visited)
       THEN /\ rm_val' = <<>>
            /\ rm_pc' = "return"
            /\ UNCHANGED <<rm_stack, rm_visited, rm_visits>>
       ELSE /\ rm_visited' = rm_visited \cup {rm_arg}
            /\ rm_visits' = rm_visits + 1
            /\ rm_stack' = Append(rm_stack, [ind |-> rm_arg,
                                             rest |-> ModifiersOf(rm_d, rm_arg),
                                             modifiers |-> <<>>])
            /\ rm_pc' = "loop"
            /\ UNCHANGED rm_val
    /\ rm_steps' = rm_steps + 1
    /\ UNCHANGED <<doc, pipeVars, rm_d, rm_start, rm_arg, rm_out, filterVars,
                   sortVars, concVars, serverVars>>

\* radgpt.py:25-31: the loop calls with the next modifier id, or ends, the call
\* appending its own tuple and returning.
RMLoop ==
    /\ rm_pc = "loop"
    /\ LET top == rm_stack[Len(rm_stack)]
       IN  IF top.rest # <<>>
           THEN /\ rm_arg' = Head(top.rest)
                /\ rm_stack' = [rm_stack EXCEPT ![Len(rm_stack)].rest = Tail(top.rest)]
                /\ rm_pc' = "call"
                /\ UNCHANGED rm_val
           ELSE /\ rm_val' = Append(top.modifiers, EntityTuple(doc.entities, top.ind))
                /\ rm_stack' = SubSeq(rm_stack, 1, Len(rm_stack) - 1)
                /\ rm_pc' = "return"
                /\ UNCHANGED rm_arg
    /\ rm_steps' = rm_steps + 1
    /\ UNCHANGED <<doc, pipeVars, rm_d, rm_start, rm_visited, rm_visits, rm_out, filterVars,
                   sortVars, concVars, serverVars>>

\* radgpt.py:27: the caller adds the returned list to its own; the top-level
\* call returns to its caller.
RMReturn ==
    /\ rm_pc = "return"
    /\ IF rm_stack = <<>>
       THEN /\ rm_out' = rm_val
            /\ rm_pc' = "done"
            /\ UNCHANGED rm_stack
       ELSE /\ rm_stack' = [rm_stack EXCEPT ![Len(rm_stack)].modifiers = @ \o rm_val]
            /\ rm_pc' = "loop"
            /\ UNCHANGED rm_out
    /\ rm_steps' = rm_steps + 1
    /\ UNCHANGED <<doc, pipeVars, rm_d, rm_start, rm_arg, rm_val, rm_visited, rm_visits,
                   filterVars,
                   sortVars, concVars, serverVars>>

RMNext == RMEnter \/ RMLoop \/ RMReturn

\* ------------------------------------------------------------ the substring filter alone
\* radgpt.py:179-194 and :203-214 on the same candidate list; the start_ix list
\* of candidate i is <<i>>.
ApplyFilter ==
    /\ filtered = NotCalled
    /\ filtered' = [filtered_entries |-> FilterBy(cands, cands),
                    filtered_start_ix |-> FilterBy(cands, [i \in 1..Len(cands) |-> <<i>>]),
                    filtered_suggestive |-> SubstringFilter(cands)]
    /\ UNCHANGED <<doc, pipeVars, rmVars, cands, sortVars, concVars, serverVars>>

\* ------------------------------------------------------------ concurrent invocations
\* The invocations of get_radgraph_processed_annotations that run at once.
Invocations == {1, 2}

\* One visited set for all invocations, as a default argument visited=set()
\* would be.
SharedCell(p) == 1

\* radgpt.py:15-16: the visited set of a top-level call is an object the call
\* creates, so invocation p has its own.
VisitedCell(p) == p

\* The frame of invocation p: its argument, its position, its locals
\* (radgpt.py:52-56, :100), the open calls of recursive_modifier, its result.
Frame(document) ==
    [doc |-> document, pc |-> "start", m |-> FreshLocals, processed |-> <<>>,
     rm_pc |-> "off", rm_arg |-> Missing, rm_val |-> <<>>, rm_stack |-> <<>>,
     out |-> NotCalled]

\* The frame f after a KeyError has left the function.
Fail(f) == [f EXCEPT !.pc = "done", !.out = Raised]

\* radgpt.py:49-94 in invocation p.
CIndex(p) ==
    /\ frames[p].pc = "start"
    /\ LET f == frames[p]
       IN  frames' = [frames EXCEPT ![p] =
              IF \A k \in 1..Len(f.doc.entities) : HasFields(f.doc.entities[k], IndexedFields)
              THEN [f EXCEPT !.m = IndexFrom(FreshLocals, f.doc.entities, 1),
                             !.pc = "indexed"]
              ELSE Fail(f)]
    /\ UNCHANGED <<doc, pipeVars, rmVars, filterVars, sortVars, visited_sets, serverVars>>

\* radgpt.py:96-100 in invocation p.
CFilter(p) ==
    /\ frames[p].pc = "indexed"
    /\ LET f == frames[p]
       IN  frames' = [frames EXCEPT ![p] =
              [f EXCEPT !.m.obs_modified_by_obs = filter_loop(f.m.obs_modified_by_obs),
                        !.m.anat_modify_anat = filter_loop(f.m.anat_modify_anat),
                        !.processed = <<>>,
                        !.pc = "observing"]]
    /\ UNCHANGED <<doc, pipeVars, rmVars, filterVars, sortVars, visited_sets, serverVars>>

\* radgpt.py:102-115 and :14-16 in invocation p: the loop takes the next main
\* observation and calls recursive_modifier, which creates its visited set.
CCall(p) ==
    /\ frames[p].pc = "observing"
    /\ Len(frames[p].processed) < Len(frames[p].m.all_observations)
    /\ LET f == frames[p]
       IN  frames' = [frames EXCEPT ![p] =
              [f EXCEPT !.rm_arg = f.m.all_observations[Len(f.processed) + 1][1],
                        !.rm_pc = "call", !.rm_val = <<>>, !.rm_stack = <<>>,
                        !.pc = "in_rm"]]
    /\ visited_sets' = [visited_sets EXCEPT ![VisitedCell(p)] = NewVisited]
    /\ UNCHANGED <<doc, pipeVars, rmVars, filterVars, sortVars, serverVars>>

\* radgpt.py:18-23 in invocation p: a call of recursive_modifier is entered.
CEnter(p) ==
    /\ frames[p].pc = "in_rm"
    /\ frames[p].rm_pc = "call"
    /\ IF InVisited(frames[p].rm_arg, visited_sets[VisitedCell(p)])
       THEN /\ frames' = [frames EXCEPT ![p].rm_val = <<>>, ![p].rm_pc = "return"]
            /\ UNCHANGED visited_sets
       ELSE /\ visited_sets' = [visited_sets EXCEPT ![VisitedCell(p)] =
                                   visited_sets[VisitedCell(p)] \cup {frames[p].rm_arg}]
            /\ frames' = [frames EXCEPT
                  ![p].rm_stack =
                      Append(frames[p].rm_stack,
                             [ind |-> frames[p].rm_arg,
                              rest |-> ModifiersOf(frames[p].m.obs_modified_by_obs,
                                                   frames[p].rm_arg),
                              modifiers |-> <<>>]),
                  ![p].rm_pc = "loop"]
    /\ UNCHANGED <<doc, pipeVars, rmVars, filterVars, sortVars, serverVars>>

\* radgpt.py:25-31 in invocation p: the loop calls with the next modifier id, or
\* ends, the call appending its own tuple and returning.
CLoop(p) ==
    /\ frames[p].pc = "in_rm"
    /\ frames[p].rm_pc = "loop"
    /\ LET f == frames[p]
           top == f.rm_stack[Len(f.rm_stack)]
       IN  frames' = [frames EXCEPT ![p] =
              IF top.rest # <<>>
              THEN [f EXCEPT !.rm_arg = Head(top.rest),
                             !.rm_stack[Len(f.rm_stack)].rest = Tail(top.rest),
                             !.rm_pc = "call"]
              ELSE IF HasTuple(f.doc.entities, top.ind)
              THEN [f EXCEPT !.rm_val = Append(top.modifiers,
                                               EntityTuple(f.doc.entities, top.ind)),
                             !.rm_stack = SubSeq(f.rm_stack, 1, Len(f.rm_stack) - 1),
                             !.rm_pc = "return"]
              ELSE Fail(f)]
    /\ UNCHANGED <<doc, pipeVars, rmVars, filterVars, sortVars, visited_sets, serverVars>>

\* radgpt.py:27 in invocation p: the caller adds the returned list to its own;
\* the top-level call returns to line 115.
CBack(p) ==
    /\ frames[p].pc = "in_rm"
    /\ frames[p].rm_pc = "return"
    /\ LET f == frames[p]
       IN  frames' = [frames EXCEPT ![p] =
              IF f.rm_stack = <<>>
              THEN [f EXCEPT !.rm_pc = "done"]
              ELSE [f EXCEPT !.rm_stack[Len(f.rm_stack)].modifiers = @ \o f.rm_val,
                             !.rm_pc = "loop"]]
    /\ UNCHANGED <<doc, pipeVars, rmVars, filterVars, sortVars, visited_sets, serverVars>>

\* radgpt.py:117-216 in invocation p: the record of the observation is built
\* from the list line 115 received, and appended.
CRecord(p) ==
    /\ frames[p].pc = "in_rm"
    /\ frames[p].rm_pc = "done"
    /\ LET f == frames[p]
           r == RecordFrom(f.doc.entities, f.m, f.m.all_observations[Len(f.processed) + 1],
                           [modifiers |-> f.rm_val, err |-> FALSE])
       IN  frames' = [frames EXCEPT ![p] =
              IF r.err THEN Fail(f)
              ELSE [f EXCEPT !.processed = Append(f.processed, r.record),
                             !.rm_pc = "off", !.pc = "observing"]]
    /\ UNCHANGED <<doc, pipeVars, rmVars, filterVars, sortVars, visited_sets, serverVars>>

\* radgpt.py:218-223 in invocation p.
CReturn(p) ==
    /\ frames[p].pc = "observing"
    /\ Len(frames[p].processed) = Len(frames[p].m.all_observations)
    /\ LET f == frames[p]
       IN  frames' = [frames EXCEPT ![p] =
              IF \A k \in 1..Len(f.doc.entities) : HasFields(f.doc.entities[k], LabelMapFields)
              THEN [f EXCEPT !.out = ReturnedDict(f.processed, f.doc), !.pc = "done"]
              ELSE Fail(f)]
    /\ UNCHANGED <<doc, pipeVars, rmVars, filterVars, sortVars, visited_sets, serverVars>>

\* Any invocation takes its next step.
ConcNext ==
    \E p \in Invocations :
        \/ CIndex(p) \/ CFilter(p) \/ CCall(p) \/ CEnter(p) \/ CLoop(p) \/ CBack(p)
        \/ CRecord(p) \/ CReturn(p)

\* ------------------------------------------------------------ RadGraphRewardServer
\* math.ceil(a / b) for a >= 0 and b >= 1.
\* The quotient rounded down.
FloorDiv(a, b) == a \div b

\* ray_worker.py:29, math.ceil(a / b) for a >= 0 and b >= 1.
CeilDiv(a, b) == (a + b - 1) \div b

Min(a, b) == IF a < b THEN a ELSE b

\* l[start:end] for 0 <= start <= end <= len(l).
Slice(l, start, end) == SubSeq(l, start + 1, end)

\* The score of one level for one pair of reports.
Score(level, hyp, ref) == <<level, hyp, ref>>

\* self.model(hyps=hyps, refs=refs)[1] at reward_level "all": the scores of the
\* pairs at each of the three levels, as three lists in the order of the pairs.
F1RadGraph(hs, rs) ==
    [l \in 1..3 |->
        [k \in 1..Len(hs) |-> Score(<<"simple", "partial", "complete">>[l], hs[k], rs[k])]]

\* list(zip(*reward_list)): one tuple per position that all the lists have.
Zip(reward_list) ==
    LET n == IF reward_list = <<>> THEN 0
             ELSE CHOOSE m \in {Len(reward_list[l]) : l \in 1..Len(reward_list)} :
                     \A l \in 1..Len(reward_list) : m <= Len(reward_list[l])
    IN  [k \in 1..n |-> [l \in 1..Len(reward_list) |-> reward_list[l][k]]]

\* ray_worker.py:11-14, RadGraphWorker.compute
compute(hs, rs) == Zip(F1RadGraph(hs, rs))

\* A task that has not finished.
Pending == [status |-> "pending"]

\* A task whose compute call raised.
Failed == [status |-> "failed"]

\* The results in the order in which the tasks finished.
CompletionOrder(n, done) == done

\* ray_worker.py:38, ray.get(futures): the results in the order of futures.
FuturesOrder(n, done) == [k \in 1..n |-> k]

\* [reward for batch in results for reward in batch]
RECURSIVE Flatten(_)
Flatten(batches) ==
    IF batches = <<>> THEN <<>> ELSE Head(batches) \o Flatten(Tail(batches))

\* ray_worker.py:27-29: the assertion and the shard size.
Begin ==
    /\ srv_pc = "called"
    /\ srv_pc' = IF Len(hyps) = Len(refs) THEN "dispatch" ELSE "AssertionError"
    /\ UNCHANGED <<doc, pipeVars, rmVars, filterVars, sortVars, concVars, hyps, refs,
                   num_workers, srv_i, futures, results, finished, all_rewards>>

\* ray_worker.py:32-36: one iteration of the loop over the workers.
Dispatch ==
    /\ srv_pc = "dispatch"
    /\ srv_i < num_workers
    /\ LET total == Len(hyps)
           batch_size == CeilDiv(total, num_workers)
           start == srv_i * batch_size
           end == Min((srv_i + 1) * batch_size, total)
       IN  IF start < end
           THEN /\ futures' = Append(futures, [worker |-> srv_i, start |-> start,
                                               end |-> end])
                /\ results' = Append(results, Pending)
           ELSE UNCHANGED <<futures, results>>
    /\ srv_i' = srv_i + 1
    /\ UNCHANGED <<doc, pipeVars, rmVars, filterVars, sortVars, concVars, hyps, refs,
                   num_workers, srv_pc, finished, all_rewards>>

\* ray_worker.py:11-14: the worker of task j finishes compute on its shard, at
\* any time after the task was submitted.
Compute(j) ==
    /\ j \in 1..Len(futures)
    /\ results[j] = Pending
    /\ results' = [results EXCEPT ![j] =
          [status |-> "done",
           rewards |-> compute(Slice(hyps, futures[j].start, futures[j].end),
                               Slice(refs, futures[j].start, futures[j].end))]]
    /\ finished' = Append(finished, j)
    /\ UNCHANGED <<doc, pipeVars, rmVars, filterVars, sortVars, concVars, hyps, refs,
                   num_workers, srv_pc, srv_i, futures, all_rewards>>

\* ray_worker.py:38-40: ray.get returns once every task has finished; the
\* batches are concatenated and returned.
Gather ==
    /\ srv_pc = "dispatch"
    /\ srv_i = num_workers
    /\ \A j \in 1..Len(futures) : results[j].status = "done"
    /\ LET order == FuturesOrder(Len(futures), finished)
       IN  all_rewards' =
              [status |-> "returned",
               rewards |-> Flatten([k \in 1..Len(order) |-> results[order[k]].rewards])]
    /\ srv_pc' = "returned"
    /\ UNCHANGED <<doc, pipeVars, rmVars, filterVars, sortVars, concVars, hyps, refs,
                   num_workers, srv_i, futures, results, finished>>

ServerNext == Begin \/ Dispatch \/ (\E j \in 1..MaxWorkers : Compute(j)) \/ Gather

\* ray_worker.py:12: self.model raises in the worker of task j, and the task
\* ends with that exception.
ComputeFails(j) ==
    /\ j \in 1..Len(futures)
    /\ results[j] = Pending
    /\ results' = [results EXCEPT ![j] = Failed]
    /\ finished' = Append(finished, j)
    /\ UNCHANGED <<doc, pipeVars, rmVars, filterVars, sortVars, concVars, hyps, refs,
                   num_workers, srv_pc, srv_i, futures, all_rewards>>

\* ray_worker.py:38: ray.get raises the exception of a failed task; nothing
\* catches it, so it leaves compute_rewards, whether or not the other tasks
\* have finished.
GatherRaises ==
    /\ srv_pc = "dispatch"
    /\ srv_i = num_workers
    /\ \E j \in 1..Len(futures) : results[j] = Failed
    /\ all_rewards' = [status |-> "RayTaskError"]
    /\ srv_pc' = "RayTaskError"
    /\ UNCHANGED <<doc, pipeVars, rmVars, filterVars, sortVars, concVars, hyps, refs,
                   num_workers, srv_i, futures, results, finished>>

\* compute_rewards with workers whose compute call may raise.
ServerFailNext ==
    ServerNext \/ (\E j \in 1..MaxWorkers : ComputeFails(j)) \/ GatherRaises

\* ------------------------------------------------------------ sort_words_by_index alone
\* radgpt.py:34-36 on one pair of lists.
ApplySort ==
    /\ sorted_words = NotCalled
    /\ sorted_words' = [words |-> sort_words_by_index(word_list, index_list)]
    /\ UNCHANGED <<doc, pipeVars, rmVars, filterVars, word_list, index_list, concVars,
                   serverVars>>

\* ------------------------------------------------------------ input documents
SeqsUpTo(S, n) == UNION {[1..k -> S] : k \in 0..n}

Letters == <<"a", "b", "c", "d", "e", "f">>

ObsPresent == <<"Observation", "definitely present">>

Entity(label, tokens, start_ix, end_ix, relations) ==
    [label |-> label, tokens |-> tokens, start_ix |-> start_ix, end_ix |-> end_ix,
     relations |-> relations]

\* The document of the given entities; its text is their tokens.
DocOf(entities) ==
    [entities |-> entities,
     text |-> Join([i \in 1..Len(entities) |-> entities[i].tokens], <<" ">>)]

\* The relations of entity k in a document whose relations are, in order, the
\* triples <<source, type, target>> of edges.
RECURSIVE RelationsOf(_, _)
RelationsOf(edges, k) ==
    IF edges = <<>> THEN <<>>
    ELSE IF Head(edges)[1] = k
         THEN <<<<Head(edges)[2], Head(edges)[3]>>>> \o RelationsOf(Tail(edges), k)
         ELSE RelationsOf(Tail(edges), k)

\* Entity k of the plain documents: one letter, one token position.
PlainEntity(k, label, relations) == Entity(label, <<Letters[k]>>, k, k, relations)

PipeOff ==
    /\ pc = "off" /\ run = 0 /\ run_limit = 0
    /\ obs_modified_by_obs = <<>> /\ obs_located_anat = <<>> /\ obs_suggest_obs = <<>>
    /\ anat_modify_anat = <<>> /\ all_observations = <<>>
    /\ processed_observations = <<>>
    /\ out = NotCalled /\ prev_out = NotCalled

PipeIdle(limit) ==
    /\ pc = "idle" /\ run = 0 /\ run_limit = limit
    /\ obs_modified_by_obs = <<>> /\ obs_located_anat = <<>> /\ obs_suggest_obs = <<>>
    /\ anat_modify_anat = <<>> /\ all_observations = <<>>
    /\ processed_observations = <<>>
    /\ out = NotCalled /\ prev_out = NotCalled

RMOff ==
    /\ rm_d = <<>> /\ rm_start = Missing /\ rm_pc = "off" /\ rm_arg = Missing
    /\ rm_val = <<>> /\ rm_stack = <<>> /\ rm_visited = {} /\ rm_visits = 0
    /\ rm_steps = 0 /\ rm_out = NotCalled

FilterOff == cands = <<>> /\ filtered = [status |-> "off"]

SortOff == word_list = <<>> /\ index_list = <<>> /\ sorted_words = [status |-> "off"]

ConcOff == frames = <<>> /\ visited_sets = <<>>

ServerOff ==
    /\ hyps = <<>> /\ refs = <<>> /\ num_workers = 0 /\ srv_pc = "off" /\ srv_i = 0
    /\ futures = <<>> /\ results = <<>> /\ finished = <<>>
    /\ all_rewards = [status |-> "off"]

\* ------------------------------------------------------------ recursive_modifier alone
\* The adjacency map that the appends d[key].append(source) build, in order.
RECURSIVE DictFromPairs(_, _)
DictFromPairs(pairs, d) ==
    IF pairs = <<>> THEN d
    ELSE DictFromPairs(Tail(pairs), DictAppend(d, Head(pairs)[1], Head(pairs)[2]))

\* Any adjacency map of at most MaxEdges entries over the entities of a plain
\* document (any key order, any list order, repeated entries included), and a
\* top-level call recursive_modifier(annotations, rm_start, rm_d).
InitRM ==
    /\ doc = DocOf([k \in Ids |-> PlainEntity(k, ObsPresent, <<>>)])
    /\ \E pairs \in SeqsUpTo(Ids \X Ids, MaxEdges) : rm_d = DictFromPairs(pairs, <<>>)
    /\ rm_start \in Ids
    /\ rm_arg = rm_start
    /\ rm_pc = "call"
    /\ rm_val = <<>>
    /\ rm_stack = <<>>
    /\ rm_visited = NewVisited
    /\ rm_visits = 0
    /\ rm_steps = 0
    /\ rm_out = NotCalled
    /\ PipeOff
    /\ FilterOff
    /\ SortOff /\ ConcOff /\ ServerOff

SpecRM == InitRM /\ [][RMNext]_vars

\* ------------------------------------------------------------ C1, C2
\* Number of entries of all the lists of d.
RECURSIVE EntryCount(_)
EntryCount(d) == IF d = <<>> THEN 0 ELSE Len(Head(d)[2]) + EntryCount(Tail(d))

\* The ids reachable from s by following d, s included: the least set that
\* holds s and, with an id, the ids listed under it.
RECURSIVE ReachFrom(_, _)
ReachFrom(d, S) ==
    LET T == S \cup {d[i][2][j] : <<i, j>> \in
                        {p \in (1..Len(d)) \X (1..MaxEdges + NumEntities) :
                            d[p[1]][1] \in S /\ p[2] <= Len(d[p[1]][2])}}
    IN  IF T = S THEN S ELSE ReachFrom(d, T)

Reach(d, s) == ReachFrom(d, {s})

\* C1: a top-level call of recursive_modifier ends, on every adjacency map, with
\* cycles or without: at most one call per entity passes the visited check, no
\* more calls are open than there are entities, the number of steps is bounded
\* by the size of the map, a step can be taken until the call has returned, and
\* what it returns is a list of at most one tuple per entity.
C1_Terminates ==
    rm_pc # "off" =>
        /\ rm_visits <= Len(doc.entities)
        /\ Len(rm_stack) <= Len(doc.entities)
        /\ rm_steps <= 2 + 3 * EntryCount(rm_d) + Len(doc.entities)
        /\ (rm_pc # "done" => ENABLED RMNext)
        /\ (rm_pc = "done" => Len(rm_out) <= Len(doc.entities))

\* A call that has returned on a map in which its start id and another id
\* list each other.
C1_Witness ==
    /\ rm_pc = "done"
    /\ \E b \in Ids \ {rm_start} :
          /\ InList(b, ModifiersOf(rm_d, rm_start))
          /\ InList(rm_start, ModifiersOf(rm_d, b))

\* C2: the list a top-level call returns holds exactly one tuple for each entity
\* reachable from the start id (itself included), none twice, and the tuple of
\* the start id is last.
C2_ExactClosure ==
    rm_pc = "done" =>
        /\ Len(rm_out) = Cardinality(Reach(rm_d, rm_start))
        /\ \A k \in Reach(rm_d, rm_start) :
              Cardinality({i \in 1..Len(rm_out) :
                              rm_out[i] = EntityTuple(doc.entities, k)}) = 1
        /\ rm_out[Len(rm_out)] = EntityTuple(doc.entities, rm_start)

\* The chain 1 modifies 2, 2 modifies 3, called at 3, has returned 1, 2, 3.
C2_Witness ==
    /\ rm_pc = "done"
    /\ rm_start = 3
    /\ rm_d = <<<<3, <<2>>>>, <<2, <<1>>>>>>
    /\ rm_out = <<EntityTuple(doc.entities, 1), EntityTuple(doc.entities, 2),
                  EntityTuple(doc.entities, 3)>>

\* ------------------------------------------------------------ the substring filter alone
\* Stand-ins for phrases: ab (abdomen), u ab (upper abdomen), c (chest), cab (a
\* longer unrelated word holding ab), ab u (the words of u ab in another order),
\* and the empty phrase.
Phrases ==
    {<<"a", "b">>, <<"u", " ", "a", "b">>, <<"c">>, <<"c", "a", "b">>,
     <<"a", "b", " ", "u">>, <<>>}

InitFilter ==
    /\ doc = DocOf(<<>>)
    /\ cands \in SeqsUpTo(Phrases, MaxCands)
    /\ filtered = NotCalled
    /\ PipeOff
    /\ RMOff
    /\ SortOff /\ ConcOff /\ ServerOff

SpecFilter == InitFilter /\ [][ApplyFilter]_vars

\* ------------------------------------------------------------ C4
\* s occurs in t as a run of consecutive characters.
OccursIn(s, t) ==
    \E a \in 1..(Len(t) + 1) :
        \A i \in 1..Len(s) : a + i - 1 <= Len(t) /\ t[a + i - 1] = s[i]

\* The words of s: its maximal runs of characters other than whitespace.
WordsOf(s) ==
    {SubSeq(s, a, b) : <<a, b>> \in
        {p \in (1..Len(s)) \X (1..Len(s)) :
            /\ p[1] <= p[2]
            /\ \A i \in p[1]..p[2] : s[i] \notin {" ", "\n"}
            /\ (p[1] = 1 \/ s[p[1] - 1] \in {" ", "\n"})
            /\ (p[2] = Len(s) \/ s[p[2] + 1] \in {" ", "\n"})}}

\* The positions of l the rule of C4 keeps.
KeptByRule(l) ==
    {i \in 1..Len(l) :
        ~ \E j \in 1..Len(l) :
            j # i /\ OccursIn(l[i], l[j]) /\ WordsOf(l[i]) \subseteq WordsOf(l[j])}

\* The m-th smallest member of the set K of integers.
NthOf(K, m) == CHOOSE k \in K : Cardinality({x \in K : x < k}) = m - 1

\* The entries of values at the positions K, in ascending position order.
AtPositions(values, K) == [m \in 1..Cardinality(K) |-> values[NthOf(K, m)]]

\* C4: the substring filter keeps, in input order, exactly the candidates that no
\* candidate at another position covers both as a substring and as a word set,
\* in its located_at copy (with the start_ix lists) and its suggestive_of copy.
C4_SubstringFilter ==
    filtered \notin {NotCalled, [status |-> "off"]} =>
        /\ filtered.filtered_entries = AtPositions(cands, KeptByRule(cands))
        /\ filtered.filtered_suggestive = AtPositions(cands, KeptByRule(cands))
        /\ filtered.filtered_start_ix =
              AtPositions([i \in 1..Len(cands) |-> <<i>>], KeptByRule(cands))

\* [ab, u ab, c] has been filtered to [u ab, c].
C4_Witness ==
    /\ cands = <<<<"a", "b">>, <<"u", " ", "a", "b">>, <<"c">>>>
    /\ filtered \notin {NotCalled, [status |-> "off"]}
    /\ filtered.filtered_entries = <<<<"u", " ", "a", "b">>, <<"c">>>>

\* ------------------------------------------------------------ documents: modify graphs
AnatPresent == <<"Anatomy", "definitely present">>

\* Entity k of these documents ends at k or k + 1, so that entities 1 and 2, and
\* 3 and 4, share an end_ix.
GraphEntity(k, label, relations) ==
    Entity(label, <<Letters[k]>>, k, k + (k % 2), relations)

\* All entities are observations, or the last two are anatomies.
GraphLabels ==
    {[k \in Ids |-> IF k > NumEntities - a THEN AnatPresent ELSE ObsPresent] : a \in {0, 2}}

\* Any modify relation, to an entity or to an id that is none, and for entity 1
\* a located_at relation to the last entity or to no entity and a suggestive_of
\* relation to entity 2 or to no entity.
GraphEdges ==
    {<<s, "modify", t>> : <<s, t>> \in Ids \X (Ids \cup {Missing})}
        \cup {<<1, "located_at", NumEntities>>, <<1, "located_at", Missing>>,
              <<1, "suggestive_of", 2>>, <<1, "suggestive_of", Missing>>}

GraphDoc(labels, edges) ==
    DocOf([k \in Ids |-> GraphEntity(k, labels[k], RelationsOf(edges, k))])

\* A document of NumEntities entities with at most MaxEdges relations, any
\* relations in any order, called once.
InitGraph ==
    /\ \E labels \in GraphLabels, edges \in SeqsUpTo(GraphEdges, MaxEdges) :
          doc = GraphDoc(labels, edges)
    /\ PipeIdle(1)
    /\ RMOff
    /\ FilterOff
    /\ SortOff /\ ConcOff /\ ServerOff

SpecGraph == InitGraph /\ [][PipeNext]_vars

\* A document of NumEntities entities with fewer than MaxEdges relations,
\* called Runs times.
InitTwice ==
    /\ \E labels \in GraphLabels, edges \in SeqsUpTo(GraphEdges, MaxEdges - 1) :
          doc = GraphDoc(labels, edges)
    /\ PipeIdle(Runs)
    /\ RMOff
    /\ FilterOff
    /\ SortOff /\ ConcOff /\ ServerOff

SpecTwice == InitTwice /\ [][PipeNext]_vars

\* ------------------------------------------------------------ documents: labels
LabelChoices ==
    {<<"Observation", "definitely present">>,
     <<"Observation", "definitely absent">>,
     <<"Observation", "uncertain">>,
     <<"Observation", "measurement", "definitely present">>,
     <<"Observation", "measurement", "definitely absent">>,
     <<"Observation", "measurement", "uncertain">>,
     <<"Anatomy", "definitely absent">>}

\* Entity k has no relation, or modifies entity 1, its predecessor or its
\* successor.
LabelRelations(k, n) ==
    {<<>>} \cup {<<<<"modify", t>>>> : t \in ({1, k - 1, k + 1} \cap (1..n)) \ {k}}

\* A document of 0 to NumEntities entities with any labels, called once.
InitLabels ==
    /\ \E n \in 0..NumEntities :
          \E labels \in [1..n -> LabelChoices] :
             \E rels \in [1..n -> UNION {LabelRelations(k, n) : k \in 1..n}] :
                /\ \A k \in 1..n : rels[k] \in LabelRelations(k, n)
                /\ doc = DocOf([k \in 1..n |-> PlainEntity(k, labels[k], rels[k])])
    /\ PipeIdle(1)
    /\ RMOff
    /\ FilterOff
    /\ SortOff /\ ConcOff /\ ServerOff

SpecLabels == InitLabels /\ [][PipeNext]_vars

\* ------------------------------------------------------------ documents: tokens and offsets
TokenChoices == {<<"a">>, <<"b">>}

\* Observations with any of two tokens and any start_ix up to MaxIx (so that
\* entities may share a token or an offset), each modifying any of the entities
\* before it (so that two modifier paths may reach one entity).
InitTokens ==
    /\ \E tokens \in [Ids -> TokenChoices], ix \in [Ids -> 1..MaxIx],
          mods \in SUBSET {p \in Ids \X Ids : p[2] < p[1]} :
          doc = DocOf([k \in Ids |->
                    Entity(ObsPresent, tokens[k], ix[k], ix[k],
                           LET targets == {t \in Ids : <<k, t>> \in mods}
                           IN  [i \in 1..Cardinality(targets) |->
                                   <<"modify", NthOf(targets, i)>>])])
    /\ PipeIdle(1)
    /\ RMOff
    /\ FilterOff
    /\ SortOff /\ ConcOff /\ ServerOff

SpecTokens == InitTokens /\ [][PipeNext]_vars

\* ------------------------------------------------------------ documents, as the claims read them
\* The entities with Observation in their label and no modify relation.
MainEntities(entities) ==
    {k \in 1..Len(entities) :
        /\ \E p \in 1..Len(entities[k].label) : entities[k].label[p] = "Observation"
        /\ \A r \in 1..Len(entities[k].relations) : entities[k].relations[r][1] # "modify"}

\* Entity s has Observation in its label and a modify relation to t.
ObsModifies(entities, s, t) ==
    /\ \E p \in 1..Len(entities[s].label) : entities[s].label[p] = "Observation"
    /\ \E r \in 1..Len(entities[s].relations) : entities[s].relations[r] = <<"modify", t>>

\* M and every entity that reaches M through modify relations of observations.
RECURSIVE InputClosureFrom(_, _)
InputClosureFrom(entities, S) ==
    LET T == S \cup {s \in 1..Len(entities) : \E t \in S : ObsModifies(entities, s, t)}
    IN  IF T = S THEN S ELSE InputClosureFrom(entities, T)

InputClosure(entities, M) == InputClosureFrom(entities, {M})

StrictlyAscending(l) == \A i \in 1..(Len(l) - 1) : l[i] < l[i + 1]

Values(l) == {l[i] : i \in 1..Len(l)}

\* Some relation of the document names an id that is no entity.
HasDangling(entities) ==
    \E k \in 1..Len(entities) : \E r \in 1..Len(entities[k].relations) :
        entities[k].relations[r][2] \notin 1..Len(entities)

\* The i-th record built and the main observation it was built for.
RecordOf(i) == processed_observations[i]
ObservationOf(i) == all_observations[i][1]

\* ------------------------------------------------------------ C3
\* The tag the priority rule gives a set of labels.
TagByPriority(labels) ==
    IF \E l \in labels : l \in {<<"Observation", "definitely absent">>,
                               <<"Observation", "measurement", "definitely absent">>}
    THEN "definitely absent"
    ELSE IF \E l \in labels : l \in {<<"Observation", "uncertain">>,
                                    <<"Observation", "measurement", "uncertain">>}
    THEN "uncertain"
    ELSE "definitely present"

\* C3: every record has exactly one tag, the one the priority absent, uncertain,
\* present gives the labels of the observation's collected closure.
C3_TagPriority ==
    \A i \in 1..Len(processed_observations) :
        RecordOf(i).tags =
            <<TagByPriority({doc.entities[k].label :
                                k \in Reach(obs_modified_by_obs, ObservationOf(i))})>>

\* A record tagged definitely absent whose closure holds an uncertain label and
\* a definitely absent one.
C3_Witness ==
    \E i \in 1..Len(processed_observations) :
        /\ RecordOf(i).tags = <<"definitely absent">>
        /\ \E k, j \in Reach(obs_modified_by_obs, ObservationOf(i)) :
              /\ doc.entities[k].label = <<"Observation", "measurement", "uncertain">>
              /\ doc.entities[j].label = <<"Observation", "definitely absent">>

\* ------------------------------------------------------------ C5
\* C5: a call returns one record per main observation and no other, in the
\* order of the entity mapping (entity k of these documents starts at k, so a
\* record names its main observation in observation_start_ix), and an empty
\* list for a document without main observation.
C5_OneRecordPerMain ==
    (pc = "idle" /\ run >= 1) =>
        /\ out.status = "returned"
        /\ Len(out.processed_annotations) = Cardinality(MainEntities(doc.entities))
        /\ \A i \in 1..Len(out.processed_annotations) :
              Values(out.processed_annotations[i].observation_start_ix)
                    \cap MainEntities(doc.entities)
                 = {NthOf(MainEntities(doc.entities), i)}

\* Two records returned for a document of three entities whose second entity
\* is no main observation.
C5_Witness ==
    /\ pc = "idle" /\ run >= 1
    /\ out.status = "returned"
    /\ Len(doc.entities) = 3
    /\ MainEntities(doc.entities) = {1, 3}
    /\ Len(out.processed_annotations) = 2

\* ------------------------------------------------------------ C6
\* The offsets are ascending without repeats and are those of the entities C.
OffsetsAre(record, C) ==
    /\ StrictlyAscending(record.observation_start_ix)
    /\ StrictlyAscending(record.observation_end_ix)
    /\ Values(record.observation_start_ix) = {doc.entities[k].start_ix : k \in C}
    /\ Values(record.observation_end_ix) = {doc.entities[k].end_ix : k \in C}

\* C6 as stated: the offsets of a record are those of the full transitive
\* modifier closure of its main observation in the input graph.
C6_FullClosure ==
    \A i \in 1..Len(processed_observations) :
        OffsetsAre(RecordOf(i), InputClosure(doc.entities, ObservationOf(i)))

\* C6 as amended: the offsets of a record are ascending, free of repeats, and
\* those of its main observation and of every entity that reaches it through
\* the map filter_loop returned for obs_modified_by_obs.
C6_FilteredClosure ==
    \A i \in 1..Len(processed_observations) :
        OffsetsAre(RecordOf(i), Reach(obs_modified_by_obs, ObservationOf(i)))

\* A record of three start offsets and, two entities ending alike, two end
\* offsets.
C6_Witness ==
    \E i \in 1..Len(processed_observations) :
        /\ Len(RecordOf(i).observation_start_ix) = 3
        /\ Len(RecordOf(i).observation_end_ix) = 2

\* ------------------------------------------------------------ C7
\* Number of positions of l that hold x.
Count(l, x) == Cardinality({i \in 1..Len(l) : l[i] = x})

\* C7 as stated: each token of the collected closure occurs exactly once in the
\* observation phrase (the tokens of these documents are single words).
C7_EachTokenOnce ==
    \A i \in 1..Len(processed_observations) :
        \A k \in Reach(obs_modified_by_obs, ObservationOf(i)) :
            Count(Split(RecordOf(i).observation), doc.entities[k].tokens) = 1

\* ------------------------------------------------------------ C8
\* C8 as stated: a call on a document with a dangling relation raises.
C8_DanglingFails ==
    (pc = "idle" /\ run >= 1 /\ HasDangling(doc.entities)) => out = Raised

\* ------------------------------------------------------------ C9
\* The positions of d that filter_loop retains: position i is left out when the
\* first id of its list is the key of a position retained before it whose list
\* is exactly the key of i.
RetainedUpTo(d, n) ==
    LET R[i \in 0..n] ==
            IF i = 0 THEN {}
            ELSE IF \E j \in R[i - 1] : d[j][1] = d[i][2][1] /\ d[j][2] = <<d[i][1]>>
                 THEN R[i - 1]
                 ELSE R[i - 1] \cup {i}
    IN  R[n]

Retained(d) == RetainedUpTo(d, Len(d))

\* C9 as stated: filter_loop returns both maps as it was given them.
C9_PassThrough ==
    [][pc = "indexed" =>
         /\ obs_modified_by_obs' = obs_modified_by_obs
         /\ anat_modify_anat' = anat_modify_anat]_vars

\* C9 as amended: filter_loop returns the entries of the map in their order
\* with their lists, less every key K whose list starts with a key V retained
\* before K whose own list is exactly [K].
C9_DropsReciprocal ==
    [][pc = "indexed" =>
         /\ obs_modified_by_obs' =
               AtPositions(obs_modified_by_obs, Retained(obs_modified_by_obs))
         /\ anat_modify_anat' =
               AtPositions(anat_modify_anat, Retained(anat_modify_anat))]_vars

\* filter_loop has returned a map without the key 2 for a document in which the
\* observations 1 and 2 modify each other and nothing else.
C9_Witness ==
    /\ pc = "observing"
    /\ doc.entities[1].relations = <<<<"modify", 2>>>>
    /\ doc.entities[2].relations = <<<<"modify", 1>>>>
    /\ doc.entities[2].label = ObsPresent
    /\ obs_modified_by_obs = <<<<2, <<1>>>>>>

\* ------------------------------------------------------------ C10
\* C10: a second call on the same document returns what the first returned.
C10_SameOutput == (pc = "idle" /\ run >= 2) => out = prev_out

\* A second call has returned a record with a location.
C10_Witness ==
    /\ pc = "idle" /\ run = 2
    /\ out.status = "returned"
    /\ \E i \in 1..Len(out.processed_annotations) :
          out.processed_annotations[i].located_at # <<>>

\* ------------------------------------------------------------ C11
\* C11: no step of a call changes the input document (the tokens, label,
\* start_ix, end_ix and relations of every entity, and the text), and the dict a
\* call returns holds that input as radgraph_annotations and its text as
\* radgraph_text.
C11_InputUntouched ==
    [][/\ doc' = doc
       /\ (pc' = "idle" /\ out'.status = "returned") =>
             /\ out'.radgraph_annotations = doc
             /\ out'.radgraph_text = doc.text
             /\ \A k \in 1..Len(doc.entities) :
                   \A f \in DOMAIN doc.entities[k] :
                      out'.radgraph_annotations.entities[k][f] = doc.entities[k][f]]_vars

\* A second call has returned on a document with a relation and a main
\* observation.
C11_Witness ==
    /\ pc = "idle" /\ run = 2
    /\ out.status = "returned"
    /\ out.processed_annotations # <<>>
    /\ \E k \in 1..Len(doc.entities) : doc.entities[k].relations # <<>>

\* ------------------------------------------------------------ documents: shared offsets, other labels
\* The start offsets of these documents: one and two digits long.
OffsetChoices == 9..(8 + MaxIx)

\* Observations and anatomies without relations, any of them at any of the
\* offsets, so that entities of different labels may share a start_ix.
InitOffsets ==
    /\ \E labels \in [Ids -> {ObsPresent, AnatPresent}], ix \in [Ids -> OffsetChoices] :
          doc = DocOf([k \in Ids |->
                    Entity(labels[k], <<Letters[k]>>, ix[k], ix[k], <<>>)])
    /\ PipeIdle(1)
    /\ RMOff
    /\ FilterOff
    /\ SortOff /\ ConcOff /\ ServerOff

SpecOffsets == InitOffsets /\ [][PipeNext]_vars

\* ------------------------------------------------------------ C12
\* The positions of the map d whose key is the string s.
PositionsOf(d, s) == {i \in 1..Len(d) : d[i][1] = s}

\* The last entity of the mapping that starts where entity k starts.
LastAt(entities, k) ==
    CHOOSE j \in 1..Len(entities) :
        /\ entities[j].start_ix = entities[k].start_ix
        /\ \A i \in (j + 1)..Len(entities) : entities[i].start_ix # entities[k].start_ix

\* Every key of the map d is the string form of the start_ix of some entity.
KeysAreOffsets(d, entities) ==
    \A i \in 1..Len(d) :
        \E k \in 1..Len(entities) : d[i][1] = StrOfInt(entities[k].start_ix)

\* C12 as stated: start_ix_to_label maps the string form of the start_ix of
\* every entity to that entity's label, and has no other key.
C12_EveryEntity ==
    (pc = "idle" /\ run >= 1 /\ out.status = "returned") =>
        /\ \A k \in 1..Len(doc.entities) :
              \E i \in PositionsOf(out.start_ix_to_label, StrOfInt(doc.entities[k].start_ix)) :
                 out.start_ix_to_label[i][2] = doc.entities[k].label
        /\ KeysAreOffsets(out.start_ix_to_label, doc.entities)

\* C12 as amended: start_ix_to_label has exactly one key for the start_ix of
\* every entity, its string form, mapped to the label of the last entity of the
\* mapping that starts there, and has no other key.
C12_LastEntityWins ==
    (pc = "idle" /\ run >= 1 /\ out.status = "returned") =>
        /\ \A k \in 1..Len(doc.entities) :
              LET P == PositionsOf(out.start_ix_to_label, StrOfInt(doc.entities[k].start_ix))
              IN  /\ Cardinality(P) = 1
                  /\ \A i \in P :
                        out.start_ix_to_label[i][2]
                           = doc.entities[LastAt(doc.entities, k)].label
        /\ KeysAreOffsets(out.start_ix_to_label, doc.entities)

\* A map returned for a document whose first two entities start at 10 and
\* differ in label: the key "10" holds the label of the second.
C12_Witness ==
    /\ pc = "idle" /\ run >= 1 /\ out.status = "returned"
    /\ doc.entities[1].start_ix = 10 /\ doc.entities[2].start_ix = 10
    /\ doc.entities[3].start_ix = 9
    /\ doc.entities[1].label = ObsPresent /\ doc.entities[2].label = AnatPresent
    /\ InItems(<<"1", "0">>, AnatPresent, out.start_ix_to_label)
    /\ ~InItems(<<"1", "0">>, ObsPresent, out.start_ix_to_label)

\* ------------------------------------------------------------ C13
\* The targets of the relations of the given type, in relation order.
RECURSIVE TargetsOf(_, _)
TargetsOf(relations, type) ==
    IF relations = <<>> THEN <<>>
    ELSE IF Head(relations)[1] = type
         THEN <<Head(relations)[2]>> \o TargetsOf(Tail(relations), type)
         ELSE TargetsOf(Tail(relations), type)

SuggestiveOfText ==
    <<" ", "s", "u", "g", "g", "e", "s", "t", "i", "v", "e", " ", "o", "f", " ">>

\* C13: the suggestive_of of a record is None exactly when its main observation
\* has no suggestive_of relation; otherwise it is a list, the substring-filtered
\* list of the strings "<tokens> suggestive of <target tokens>", one per
\* suggestive_of relation in relation order, built from the raw tokens.
C13_SuggestiveOf ==
    \A i \in 1..Len(processed_observations) :
        LET k == ObservationOf(i)
            T == TargetsOf(doc.entities[k].relations, "suggestive_of")
            S == [j \in 1..Len(T) |->
                    doc.entities[k].tokens \o SuggestiveOfText \o doc.entities[T[j]].tokens]
        IN  /\ (RecordOf(i).suggestive_of = [none |-> TRUE]) <=> (T = <<>>)
            /\ T # <<>> =>
                  RecordOf(i).suggestive_of
                     = [none |-> FALSE, items |-> AtPositions(S, KeptByRule(S))]

\* A record whose observation has two suggestive_of relations to one target:
\* its suggestive_of is the empty list, not None.
C13_Witness ==
    \E i \in 1..Len(processed_observations) :
        /\ Len(TargetsOf(doc.entities[ObservationOf(i)].relations, "suggestive_of")) = 2
        /\ RecordOf(i).suggestive_of = [none |-> FALSE, items |-> <<>>]

\* ------------------------------------------------------------ sort_words_by_index alone
Wall == <<"w", "a", "l", "l">>
Abdominal == <<"a", "b", "d", "o", "m", "i", "n", "a", "l">>

SortWords == {Wall, Abdominal, <<"a">>}

\* Any list of at most NumEntities tokens with a start_ix each, repeated tokens
\* and repeated offsets included.
InitSort ==
    /\ doc = DocOf(<<>>)
    /\ \E n \in 0..NumEntities :
          /\ word_list \in [1..n -> SortWords]
          /\ index_list \in [1..n -> 1..(MaxIx + 3)]
    /\ sorted_words = NotCalled
    /\ PipeOff
    /\ RMOff
    /\ FilterOff
    /\ ConcOff /\ ServerOff

SpecSort == InitSort /\ [][ApplySort]_vars

\* ------------------------------------------------------------ C14
\* The k-th smallest entry of the list l of integers, repeats counted.
KthSmallest(l, k) ==
    CHOOSE v \in Values(l) :
        /\ Cardinality({p \in 1..Len(l) : l[p] < v}) < k
        /\ k <= Cardinality({p \in 1..Len(l) : l[p] <= v})

\* The first position of l that holds v.
FirstAt(l, v) == CHOOSE p \in 1..Len(l) : l[p] = v /\ \A q \in 1..(p - 1) : l[q] # v

\* C14: sort_words_by_index returns as many tokens as it was given, the k-th of
\* them the token recorded with the k-th smallest start_ix, and for a start_ix
\* that several tuples share the token of the first of them.
C14_ReadingOrder ==
    sorted_words \notin {NotCalled, [status |-> "off"]} =>
        /\ Len(sorted_words.words) = Len(word_list)
        /\ \A k \in 1..Len(word_list) :
              sorted_words.words[k] = word_list[FirstAt(index_list, KthSmallest(index_list, k))]

\* [wall, abdominal] with start_ix [5, 3] has become [abdominal, wall].
C14_Witness ==
    /\ word_list = <<Wall, Abdominal>>
    /\ index_list = <<5, 3>>
    /\ sorted_words = [words |-> <<Abdominal, Wall>>]

\* ------------------------------------------------------------ C15
\* Position i is the first of several positions of l that hold the same string.
FirstOfRepeated(l, i) ==
    /\ \A j \in 1..(i - 1) : l[j] # l[i]
    /\ \E j \in (i + 1)..Len(l) : l[j] = l[i]

\* C15 as stated: of identical candidates the first is kept by the substring
\* filter (unless a different candidate covers it) and only the later ones are
\* dropped, in the located_at copy and in the suggestive_of copy of the filter.
C15_KeepsFirstOfEqual ==
    filtered \notin {NotCalled, [status |-> "off"]} =>
        \A i \in 1..Len(cands) :
            (/\ FirstOfRepeated(cands, i)
             /\ \A j \in 1..Len(cands) :
                   cands[j] # cands[i] =>
                      ~(OccursIn(cands[i], cands[j]) /\ WordsOf(cands[i]) \subseteq WordsOf(cands[j])))
            => /\ InList(<<i>>, filtered.filtered_start_ix)
               /\ InList(cands[i], filtered.filtered_entries)
               /\ InList(cands[i], filtered.filtered_suggestive)

\* ------------------------------------------------------------ documents of concurrent invocations
\* No relation; a chain; a diamond (3 modifies 1 and 2, 2 modifies 1); a cycle
\* of 2 and 3 under 1; a location and a suggestion; a location that is no
\* entity.
ConcEdges ==
    {<<>>,
     <<<<2, "modify", 1>>, <<3, "modify", 2>>>>,
     <<<<2, "modify", 1>>, <<3, "modify", 1>>, <<3, "modify", 2>>>>,
     <<<<2, "modify", 1>>, <<3, "modify", 2>>, <<2, "modify", 3>>>>,
     <<<<1, "located_at", 3>>, <<1, "suggestive_of", 2>>>>,
     <<<<1, "located_at", Missing>>>>}

ConcDocs == {GraphDoc(labels, edges) : labels \in GraphLabels, edges \in ConcEdges}

\* Each invocation has been called with a document of its own.
InitConc ==
    /\ doc = DocOf(<<>>)
    /\ \E documents \in [Invocations -> ConcDocs] :
          frames = [p \in Invocations |-> Frame(documents[p])]
    /\ visited_sets = [p \in Invocations |-> {}]
    /\ PipeOff
    /\ RMOff
    /\ FilterOff
    /\ SortOff /\ ServerOff

SpecConc == InitConc /\ [][ConcNext]_vars

\* ------------------------------------------------------------ C16
\* What a call on the document returns when it runs alone.
Alone(document) ==
    LET entities == document.entities
    IN  IF \E k \in 1..Len(entities) : ~HasFields(entities[k], IndexedFields)
        THEN Raised
        ELSE LET m0 == IndexFrom(FreshLocals, entities, 1)
                 m == [m0 EXCEPT !.obs_modified_by_obs = filter_loop(@),
                                 !.anat_modify_anat = filter_loop(@)]
                 recs == [i \in 1..Len(m.all_observations) |->
                             BuildRecord(entities, m, m.all_observations[i])]
             IN  IF \E i \in 1..Len(recs) : recs[i].err
                 THEN Raised
                 ELSE IF \E k \in 1..Len(entities) : ~HasFields(entities[k], LabelMapFields)
                 THEN Raised
                 ELSE ReturnedDict([i \in 1..Len(recs) |-> recs[i].record], document)

\* C16: in any interleaving of the steps of the invocations, a step of one
\* invocation leaves the frame and the visited set of every other invocation
\* as they were, and an invocation that has ended has returned (or raised)
\* what a call on its document returns when it runs alone.
C16_Independent ==
    [][/\ \E p \in Invocations :
             \A q \in Invocations \ {p} :
                frames'[q] = frames[q] /\ visited_sets'[q] = visited_sets[q]
       /\ \A p \in Invocations :
             frames'[p].pc = "done" => frames'[p].out = Alone(frames'[p].doc)]_vars

\* Both invocations, called with different documents, are inside
\* recursive_modifier at once, each with a non-empty visited set of its own,
\* the first of them for its second main observation.
C16_Witness ==
    /\ frames # <<>>
    /\ frames[1].pc = "in_rm" /\ frames[2].pc = "in_rm"
    /\ visited_sets[1] # {} /\ visited_sets[2] # {}
    /\ visited_sets[1] # visited_sets[2]
    /\ frames[1].doc # frames[2].doc
    /\ frames[1].processed # <<>>

\* ------------------------------------------------------------ batches of report pairs
Reports == {"x", "y"}

\* A server of 1 to MaxWorkers workers, called with any two lists of reports of
\* the same length, at most MaxPairs.
InitServer ==
    /\ doc = DocOf(<<>>)
    /\ \E n \in 0..MaxPairs : hyps \in [1..n -> Reports] /\ refs \in [1..n -> Reports]
    /\ num_workers \in 1..MaxWorkers
    /\ srv_pc = "called" /\ srv_i = 0
    /\ futures = <<>> /\ results = <<>> /\ finished = <<>>
    /\ all_rewards = NotCalled
    /\ PipeOff
    /\ RMOff
    /\ FilterOff
    /\ SortOff /\ ConcOff

SpecServer == InitServer /\ [][ServerNext]_vars

SpecServerFail == InitServer /\ [][ServerFailNext]_vars

\* ------------------------------------------------------------ C17
\* The reward of one pair: its scores at the three levels.
RewardOf(hyp, ref) ==
    <<<<"simple", hyp, ref>>, <<"partial", hyp, ref>>, <<"complete", hyp, ref>>>>

\* C17: compute_rewards returns one reward per pair, the i-th of them the
\* reward of the i-th pair, in whatever order the workers finished.
C17_OneRewardPerPair ==
    srv_pc = "returned" =>
        /\ Len(all_rewards.rewards) = Len(hyps)
        /\ \A i \in 1..Len(hyps) : all_rewards.rewards[i] = RewardOf(hyps[i], refs[i])

\* A call has returned after the task of the second shard finished before
\* the task of the first, on a batch whose shards differ.
C17_Witness ==
    /\ srv_pc = "returned"
    /\ Len(futures) >= 2
    /\ finished[1] = 2
    /\ hyps[1] # hyps[Len(hyps)]
    /\ Len(all_rewards.rewards) >= 3

\* ------------------------------------------------------------ C18
\* Every key of the map d that the map kept lacks is half of a reciprocal
\* one-to-one pair of d: its list is [V] for a key V whose list is exactly the
\* key itself.
OmitsOnlyPairs(d, kept) ==
    \A i \in 1..Len(d) :
        (\A j \in 1..Len(kept) : kept[j][1] # d[i][1]) =>
            /\ Len(d[i][2]) = 1
            /\ \E j \in 1..Len(d) : d[j][1] = d[i][2][1] /\ d[j][2] = <<d[i][1]>>

\* C18 as stated: filter_loop omits a key only when the key and some V form a
\* reciprocal one-to-one pair; a key whose list has more than one element is
\* never omitted.
C18_OmitsOnlyPairs ==
    [][pc = "indexed" =>
         /\ OmitsOnlyPairs(obs_modified_by_obs, obs_modified_by_obs')
         /\ OmitsOnlyPairs(anat_modify_anat, anat_modify_anat')]_vars

\* ------------------------------------------------------------ documents: a missing field
EntityFields == {"tokens", "label", "start_ix", "end_ix", "relations"}

\* The document with entity k lacking the field.
Without(document, k, field) ==
    [document EXCEPT !.entities[k] =
        [f \in (DOMAIN document.entities[k]) \ {field} |-> document.entities[k][f]]]

\* A document of NumEntities entities with fewer relations than MaxEdges - 1,
\* one entity of which lacks one of the five fields, called once.
InitFields ==
    /\ \E labels \in GraphLabels, edges \in SeqsUpTo(GraphEdges, MaxEdges - 2),
          k \in Ids, field \in EntityFields :
          doc = Without(GraphDoc(labels, edges), k, field)
    /\ PipeIdle(1)
    /\ RMOff
    /\ FilterOff
    /\ SortOff /\ ConcOff /\ ServerOff

SpecFields == InitFields /\ [][PipeNext]_vars

\* ------------------------------------------------------------ C19
\* C19 as stated: a call on a document in which some entity lacks one of the
\* five fields raises, whichever entity it is.
C19_MissingFieldFails ==
    (/\ pc = "idle" /\ run >= 1
     /\ \E k \in 1..Len(doc.entities) : EntityFields \ DOMAIN doc.entities[k] # {})
    => out = Raised

\* ------------------------------------------------------------ documents: anatomies that share tokens
\* Entity 1 is an observation located at up to two of the other entities, any
\* of them, in any order; the other entities are anatomies with any of two
\* tokens, each at a start_ix of its own, that modify any of each other.
InitAnat ==
    /\ \E tokens \in [Ids -> TokenChoices],
          mods \in SUBSET {p \in (Ids \ {1}) \X (Ids \ {1}) : p[1] # p[2]},
          locs \in SeqsUpTo(Ids \ {1}, 2) :
          doc = DocOf([k \in Ids |->
                    IF k = 1
                    THEN Entity(ObsPresent, tokens[k], k, k,
                                [i \in 1..Len(locs) |-> <<"located_at", locs[i]>>])
                    ELSE Entity(AnatPresent, tokens[k], k, k,
                                LET targets == {t \in Ids : <<k, t>> \in mods}
                                IN  [i \in 1..Cardinality(targets) |->
                                        <<"modify", NthOf(targets, i)>>])])
    /\ PipeIdle(1)
    /\ RMOff
    /\ FilterOff
    /\ SortOff /\ ConcOff /\ ServerOff

SpecAnat == InitAnat /\ [][PipeNext]_vars

\* ------------------------------------------------------------ C20
\* The tokens of the entities C in ascending order of their start_ix (which
\* differ from entity to entity in these documents).
TokensInOrder(entities, C) ==
    [m \in 1..Cardinality(C) |->
        entities[CHOOSE k \in C :
                    Cardinality({x \in C : entities[x].start_ix < entities[k].start_ix})
                       = m - 1].tokens]

\* The list l without the entries that occur earlier in it.
FirstOccurrences(l) ==
    AtPositions(l, {i \in 1..Len(l) : \A j \in 1..(i - 1) : l[j] # l[i]})

\* The phrase the steps of the observation phrase give the entities C.
OrderedPhrase(entities, C) ==
    Strip(Lower(Join(FirstOccurrences(TokensInOrder(entities, C)), <<" ">>)))

\* C20 as stated: the located_at of a record is the substring-filtered list of
\* one phrase per located_at target, in target order, each phrase the tokens of
\* the target's anatomy closure in start_ix order with repeated tokens removed,
\* so that no token occurs twice in a phrase.
C20_LocationLikeObservation ==
    \A i \in 1..Len(processed_observations) :
        LET T == TargetsOf(doc.entities[ObservationOf(i)].relations, "located_at")
            P == [j \in 1..Len(T) |->
                    OrderedPhrase(doc.entities, Reach(anat_modify_anat, T[j]))]
        IN  /\ RecordOf(i).located_at = AtPositions(P, KeptByRule(P))
            /\ \A j \in 1..Len(RecordOf(i).located_at) :
                  \A w \in WordsOf(RecordOf(i).located_at[j]) :
                     Count(Split(RecordOf(i).located_at[j]), w) = 1

\* ------------------------------------------------------------ C21
\* The list the map d holds under x, empty when x is no key.
ListedUnder(d, x) ==
    IF \E i \in 1..Len(d) : d[i][1] = x
    THEN d[CHOOSE i \in 1..Len(d) : d[i][1] = x][2]
    ELSE <<>>

\* No entity reachable from s is reachable from an id listed under it.
Acyclic(d, s) ==
    \A x \in Reach(d, s) :
        \A i \in 1..Len(ListedUnder(d, x)) : x \notin Reach(d, ListedUnder(d, x)[i])

\* The position of the tuple of entity k in the list l of tuples.
TupleAt(l, k) == CHOOSE i \in 1..Len(l) : l[i] = EntityTuple(doc.entities, k)

\* C21: recursive_modifier works in post-order. Every open call has made its
\* calls for a prefix of the list under its entity, in list order (the ids
\* still to come are the rest of that list, the id being called is the entry
\* before them); and on a map acyclic from the start id the returned list holds
\* the tuple of every entity after the tuples of all the entities reachable
\* from the ids listed under it.
C21_PostOrder ==
    rm_pc # "off" =>
        /\ \A f \in 1..Len(rm_stack) :
              LET listed == ListedUnder(rm_d, rm_stack[f].ind)
                  called == Len(listed) - Len(rm_stack[f].rest)
              IN  /\ called >= 0
                  /\ rm_stack[f].rest = SubSeq(listed, called + 1, Len(listed))
                  /\ (f = Len(rm_stack) /\ rm_pc = "call") =>
                        (called >= 1 /\ rm_arg = listed[called])
                  /\ f < Len(rm_stack) =>
                        (called >= 1 /\ rm_stack[f + 1].ind = listed[called])
        /\ (rm_pc = "done" /\ Acyclic(rm_d, rm_start)) =>
              \A x \in Reach(rm_d, rm_start) :
                 \A y \in Reach(rm_d, x) \ {x} : TupleAt(rm_out, y) < TupleAt(rm_out, x)

\* A call at 1 has returned on the diamond 1: [2, 3], 2: [3] the tuples of 3, 2
\* and 1, in that order.
C21_Witness ==
    /\ rm_pc = "done"
    /\ rm_start = 1
    /\ rm_d = <<<<1, <<2, 3>>>>, <<2, <<3>>>>>>
    /\ rm_out = <<EntityTuple(doc.entities, 3), EntityTuple(doc.entities, 2),
                  EntityTuple(doc.entities, 1)>>

\* ------------------------------------------------------------ documents: shared modifiers
\* The entities next to entity 1.
Others == 2..(NumEntities + 2)

\* Entity 1 is a main observation and the other entities modify any of each
\* other; either all of them are observations, or all of them are anatomies
\* and entity 1 is located at up to two of them, entities 2 and 3 in any order.
InitShared ==
    /\ \E label \in {ObsPresent, AnatPresent},
          mods \in SUBSET {p \in Others \X Others : p[1] # p[2]},
          locs \in SeqsUpTo({2, 3}, 2) :
          /\ label = ObsPresent => locs = <<>>
          /\ doc = DocOf([k \in 1..(NumEntities + 2) |->
                    IF k = 1
                    THEN PlainEntity(k, ObsPresent,
                                     [i \in 1..Len(locs) |-> <<"located_at", locs[i]>>])
                    ELSE PlainEntity(k, label,
                                     LET targets == {t \in Others : <<k, t>> \in mods}
                                     IN  [i \in 1..Cardinality(targets) |->
                                             <<"modify", NthOf(targets, i)>>])])
    /\ PipeIdle(1)
    /\ RMOff
    /\ FilterOff
    /\ SortOff /\ ConcOff /\ ServerOff

SpecShared == InitShared /\ [][PipeNext]_vars

\* ------------------------------------------------------------ C22
\* Entity s has Anatomy in its label and a modify relation to t.
AnatModifies(entities, s, t) ==
    /\ \E p \in 1..Len(entities[s].label) : entities[s].label[p] = "Anatomy"
    /\ \E r \in 1..Len(entities[s].relations) : entities[s].relations[r] = <<"modify", t>>

\* The token and the start offset of entity x are in the phrase and the offsets.
Contributes(entities, x, phrase, offsets) ==
    /\ entities[x].tokens \in WordsOf(phrase)
    /\ entities[x].start_ix \in Values(offsets)

\* An observation that modifies two main observations is in the record of
\* every main observation it modifies.
SharedObservation ==
    \A i \in 1..Len(processed_observations) :
        \A x \in 1..Len(doc.entities) :
            (/\ ObsModifies(doc.entities, x, ObservationOf(i))
             /\ \E m \in MainEntities(doc.entities) \ {ObservationOf(i)} :
                    ObsModifies(doc.entities, x, m))
            => Contributes(doc.entities, x, RecordOf(i).observation,
                           RecordOf(i).observation_start_ix)

\* C22: an observation that modifies two main observations is in the records
\* of both, and an anatomy that modifies two located_at targets of one
\* observation is in the phrases of both (read for the records whose phrases
\* all passed the substring filter).
C22_SharedModifier ==
    /\ SharedObservation
    /\ \A i \in 1..Len(processed_observations) :
          LET T == TargetsOf(doc.entities[ObservationOf(i)].relations, "located_at")
          IN  Len(RecordOf(i).located_at) = Len(T) =>
                \A j \in 1..Len(T) : \A x \in 1..Len(doc.entities) :
                    (/\ AnatModifies(doc.entities, x, T[j])
                     /\ \E j2 \in 1..Len(T) :
                            T[j2] # T[j] /\ AnatModifies(doc.entities, x, T[j2]))
                    => Contributes(doc.entities, x, RecordOf(i).located_at[j],
                                   RecordOf(i).located_at_start_ix[j])

\* ------------------------------------------------------------ C23
\* The entities x and y of C are the only two of C with the same token, and no
\* two entities of C have the same start or the same end offset.
OnlyRepeatedToken(entities, C, x, y) ==
    /\ x # y /\ entities[x].tokens = entities[y].tokens
    /\ \A u, v \in C :
          u # v => /\ entities[u].start_ix # entities[v].start_ix
                   /\ entities[u].end_ix # entities[v].end_ix
                   /\ entities[u].tokens = entities[v].tokens => {u, v} = {x, y}

\* C23: tokens and offsets are deduplicated independently. When two entities of
\* the closure of a main observation carry the same token at different start
\* offsets, everything else being distinct, the record's observation holds that
\* token once and one word per other entity, while observation_start_ix holds
\* the start offset of every entity of the closure, those two included: the
\* phrase has fewer words than the list has offsets.
C23_IndependentDedup ==
    \A i \in 1..Len(processed_observations) :
        LET C == Reach(obs_modified_by_obs, ObservationOf(i))
            words == Split(RecordOf(i).observation)
        IN  \A x, y \in C :
                OnlyRepeatedToken(doc.entities, C, x, y) =>
                    /\ Count(words, doc.entities[x].tokens) = 1
                    /\ Values(words) = {doc.entities[k].tokens : k \in C}
                    /\ Len(words) = Cardinality(C) - 1
                    /\ RecordOf(i).observation_start_ix
                         = Sorted([m \in 1..Cardinality(C) |->
                                      doc.entities[NthOf(C, m)].start_ix])
                    /\ Len(words) < Len(RecordOf(i).observation_start_ix)

\* The record of main observation 1, which entity 2 modifies with the same
\* token at another offset, says "a" once and lists both offsets.
C23_Witness ==
    /\ Len(processed_observations) >= 1
    /\ ObservationOf(1) = 1
    /\ Reach(obs_modified_by_obs, 1) = {1, 2}
    /\ OnlyRepeatedToken(doc.entities, {1, 2}, 1, 2)
    /\ RecordOf(1).observation = <<"a">>
    /\ RecordOf(1).observation_start_ix = <<1, 2>>

\* ------------------------------------------------------------ C24
\* The relations of the entities from k on, as triples <<source, type, target>>,
\* in entity order and, for one entity, in relation order.
RECURSIVE TriplesFrom(_, _)
TriplesFrom(entities, k) ==
    IF k > Len(entities) THEN <<>>
    ELSE [r \in 1..Len(entities[k].relations) |->
             <<k, entities[k].relations[r][1], entities[k].relations[r][2]>>]
         \o TriplesFrom(entities, k + 1)

\* Component c of the triples, in order, whose component at is x, whose type is
\* the given one and whose source has the part in its label.
RECURSIVE Selected(_, _, _, _, _, _, _)
Selected(entities, triples, part, type, at, x, c) ==
    IF triples = <<>> THEN <<>>
    ELSE (IF /\ Head(triples)[2] = type
             /\ Head(triples)[at] = x
             /\ \E p \in 1..Len(entities[Head(triples)[1]].label) :
                    entities[Head(triples)[1]].label[p] = part
          THEN <<Head(triples)[c]>> ELSE <<>>)
         \o Selected(entities, Tail(triples), part, type, at, x, c)

\* The map d has one entry per key, none with an empty list, and holds under
\* every id x the list expected(x), no entry standing for an empty list.
HoldsExactly(d, expected(_)) ==
    /\ \A a, b \in 1..Len(d) : d[a][1] = d[b][1] => a = b
    /\ \A a \in 1..Len(d) : d[a][2] # <<>>
    /\ \A x \in Ids \cup {Missing} : ListedUnder(d, x) = expected(x)

\* C24: after the indexing pass obs_modified_by_obs[t] lists, in entity order
\* and then relation order, one entry per relation, the sources with Observation
\* in their label that have a modify relation to t, anat_modify_anat[t] the same
\* for Anatomy, obs_located_anat[s] and obs_suggest_obs[s] the located_at and the
\* suggestive_of targets of s, in relation order, when s has Observation in its
\* label; no map has a key with an empty list.
C24_IndexMaps ==
    pc = "indexed" =>
        LET E == doc.entities
            R == TriplesFrom(E, 1)
            ObsSources(t) == Selected(E, R, "Observation", "modify", 3, t, 1)
            AnatSources(t) == Selected(E, R, "Anatomy", "modify", 3, t, 1)
            Located(x) == Selected(E, R, "Observation", "located_at", 1, x, 3)
            Suggested(x) == Selected(E, R, "Observation", "suggestive_of", 1, x, 3)
        IN  /\ HoldsExactly(obs_modified_by_obs, ObsSources)
            /\ HoldsExactly(anat_modify_anat, AnatSources)
            /\ HoldsExactly(obs_located_anat, Located)
            /\ HoldsExactly(obs_suggest_obs, Suggested)

\* The indexing pass has listed under anatomy 2 its two modifiers, observation 1
\* in obs_modified_by_obs and anatomy 3 in anat_modify_anat.
C24_Witness ==
    /\ pc = "indexed"
    /\ obs_modified_by_obs = <<<<2, <<1>>>>>>
    /\ anat_modify_anat = <<<<2, <<3>>>>>>
    /\ doc.entities[2].label = AnatPresent

\* ------------------------------------------------------------ C25
\* C25: compute_rewards isolates failures. A call in which the compute call of
\* one worker failed on its shard and that of another worker succeeded still
\* returns, and what it returns holds the rewards of the pairs of the other
\* workers' shards.
C25_IsolatesFailures ==
    (/\ srv_pc \notin {"called", "dispatch"}
     /\ \E j \in 1..Len(futures) : results[j] = Failed
     /\ \E j \in 1..Len(futures) : results[j].status = "done")
    => /\ srv_pc = "returned"
       /\ \A j \in 1..Len(futures) :
             results[j] # Failed =>
                \A k \in (futures[j].start + 1)..futures[j].end :
                    RewardOf(hyps[k], refs[k]) \in Values(all_rewards.rewards)

\* ------------------------------------------------------------ C26
\* The least number of pairs per worker with which n workers take total pairs.
ShardSize(total, n) ==
    CHOOSE b \in 0..total : b * n >= total /\ \A c \in 0..(b - 1) : c * n < total

\* C26: once the loop over the workers has ended, the shards submitted are the
\* non-empty index ranges [i*b, min((i+1)*b, total)) with b the ceiling of
\* total / num_workers, one after the other from 0 to total, so that every pair
\* is in exactly one shard; at most num_workers tasks were submitted, and none
\* for an empty batch.
C26_Shards ==
    (srv_pc \in {"dispatch", "returned"} /\ srv_i = num_workers) =>
        LET total == Len(hyps)
            b == ShardSize(total, num_workers)
            n == Len(futures)
        IN  /\ n <= num_workers
            /\ total = 0 <=> n = 0
            /\ \A j \in 1..n :
                  /\ futures[j].start = futures[j].worker * b
                  /\ futures[j].end = (IF (futures[j].worker + 1) * b < total
                                       THEN (futures[j].worker + 1) * b ELSE total)
                  /\ futures[j].start < futures[j].end
                  /\ futures[j].start = (IF j = 1 THEN 0 ELSE futures[j - 1].end)
                  /\ j = n => futures[j].end = total
            /\ \A k \in 0..(total - 1) :
                  Cardinality({j \in 1..n : futures[j].start <= k /\ k < futures[j].end}) = 1

\* Four pairs on three workers: two shards of two pairs, and the third worker
\* gets no task.
C26_Witness ==
    /\ srv_pc = "returned"
    /\ Len(hyps) = 4 /\ num_workers = 3
    /\ futures = <<[worker |-> 0, start |-> 0, end |-> 2],
                   [worker |-> 1, start |-> 2, end |-> 4]>>

\* ------------------------------------------------------------ C27
\* The tokens of the entities C in start_ix order, joined as line 171 joins them.
PlainPhrase(entities, C) == Strip(Lower(Join(TokensInOrder(entities, C), <<" ">>)))

\* The start offsets of the entities C, ascending (they differ from entity to
\* entity in these documents).
OffsetsOf(entities, C) ==
    [m \in 1..Cardinality(C) |->
        CHOOSE o \in {entities[k].start_ix : k \in C} :
            Cardinality({k \in C : entities[k].start_ix < o}) = m - 1]

\* C27: in every record located_at and located_at_start_ix have the same
\* length, and entry i of located_at_start_ix is the ascending list of the start
\* offsets of the anatomy closure whose phrase is entry i of located_at, the
\* substring filter removing a phrase and its offsets together; both are empty
\* when the observation has no located_at relation.
C27_ParallelLists ==
    \A i \in 1..Len(processed_observations) :
        LET T == TargetsOf(doc.entities[ObservationOf(i)].relations, "located_at")
            P == [j \in 1..Len(T) |->
                    PlainPhrase(doc.entities, Reach(anat_modify_anat, T[j]))]
            S == [j \in 1..Len(T) |->
                    OffsetsOf(doc.entities, Reach(anat_modify_anat, T[j]))]
            K == KeptByRule(P)
        IN  /\ Len(RecordOf(i).located_at) = Len(RecordOf(i).located_at_start_ix)
            /\ RecordOf(i).located_at = AtPositions(P, K)
            /\ RecordOf(i).located_at_start_ix = AtPositions(S, K)
            /\ T = <<>> => /\ RecordOf(i).located_at = <<>>
                           /\ RecordOf(i).located_at_start_ix = <<>>

\* Observation 1 is located at anatomies 2 and 3, anatomy 3 modifies 2 with
\* another token: the phrase of 3 is covered by that of 2 and is dropped with
\* its offsets.
C27_Witness ==
    /\ Len(processed_observations) = 1
    /\ TargetsOf(doc.entities[1].relations, "located_at") = <<3, 2>>
    /\ RecordOf(1).located_at = <<<<"a", " ", "b">>>>
    /\ RecordOf(1).located_at_start_ix = <<<<2, 3>>>>

\* ------------------------------------------------------------ C28
\* C28: the record of a main observation that has a located_at relation to an
\* entity of the document has at least one located_at phrase left after the
\* substring filter.
C28_LocatedAtNonEmpty ==
    \A i \in 1..Len(processed_observations) :
        (\E j \in 1..Len(doc.entities[ObservationOf(i)].relations) :
            /\ doc.entities[ObservationOf(i)].relations[j][1] = "located_at"
            /\ doc.entities[ObservationOf(i)].relations[j][2] \in 1..Len(doc.entities))
        => RecordOf(i).located_at # <<>>

\* ------------------------------------------------------------ C29
\* Entity k has the part in its label.
Labelled(entities, k, part) ==
    \E p \in 1..Len(entities[k].label) : entities[k].label[p] = part

\* C29: every entity whose token or start offset is in the observation or the
\* observation_start_ix of a record has Observation in its label, and every end
\* offset of observation_end_ix is that of such an entity: an entity labelled
\* Anatomy that has a modify relation to the observation is not in the phrase.
\* Every entity whose token or start offset is in a located_at phrase or its
\* offsets is a located_at target of the observation or has Anatomy in its
\* label.
C29_LabelledClosures ==
    \A i \in 1..Len(processed_observations) :
        LET E == doc.entities
            T == TargetsOf(E[ObservationOf(i)].relations, "located_at")
        IN  /\ \A k \in 1..Len(E) :
                  (\/ E[k].tokens \in WordsOf(RecordOf(i).observation)
                   \/ E[k].start_ix \in Values(RecordOf(i).observation_start_ix))
                  => Labelled(E, k, "Observation")
            /\ \A e \in Values(RecordOf(i).observation_end_ix) :
                  \E k \in 1..Len(E) : E[k].end_ix = e /\ Labelled(E, k, "Observation")
            /\ \A k \in 1..Len(E) :
                  AnatModifies(E, k, ObservationOf(i))
                  => ~Contributes(E, k, RecordOf(i).observation,
                                  RecordOf(i).observation_start_ix)
            /\ \A j \in 1..Len(RecordOf(i).located_at) : \A k \in 1..Len(E) :
                  (\/ E[k].tokens \in WordsOf(RecordOf(i).located_at[j])
                   \/ E[k].start_ix \in Values(RecordOf(i).located_at_start_ix[j]))
                  => (k \in Values(T) \/ Labelled(E, k, "Anatomy"))

\* Anatomy 2 modifies main observation 1, which is located at anatomy 3: the
\* record says "a" at offset 1, located at "c", and nothing of entity 2.
C29_Witness ==
    /\ Len(processed_observations) = 1
    /\ ObservationOf(1) = 1
    /\ AnatModifies(doc.entities, 2, 1)
    /\ RecordOf(1).observation = <<"a">>
    /\ RecordOf(1).observation_start_ix = <<1>>
    /\ RecordOf(1).located_at = <<<<"c">>>>

\* ------------------------------------------------------------ C30
\* Every list of the map d holds an id, and of two different keys of d that are
\* each other's only modifier the map e holds the one that comes first in d
\* and not the other.
KeepsFirstOfPair(d, e) ==
    /\ \A a \in 1..Len(d) : d[a][2] # <<>>
    /\ \A a, b \in 1..Len(d) :
          (/\ a < b
           /\ d[a][1] # d[b][1]
           /\ d[a][2] = <<d[b][1]>>
           /\ d[b][2] = <<d[a][1]>>)
          => /\ \E c \in 1..Len(e) : e[c][1] = d[a][1]
             /\ ~ \E c \in 1..Len(e) : e[c][1] = d[b][1]

\* C30: of two distinct entities that are each other's sole modifier in a map
\* built by the indexing pass, filter_loop keeps the key that comes first in
\* the map and drops the other; and every list it inspects holds an id, so
\* that it never fails.
C30_FirstOfPairKept ==
    [][pc = "indexed" =>
         /\ KeepsFirstOfPair(obs_modified_by_obs, obs_modified_by_obs')
         /\ KeepsFirstOfPair(anat_modify_anat, anat_modify_anat')]_vars

\* filter_loop has returned the key 3 and not the key 2 for the anatomies 2 and
\* 3 that modify each other: the indexing pass met the relation of 2 first.
C30_Witness ==
    /\ pc = "observing"
    /\ doc.entities[2].label = AnatPresent
    /\ doc.entities[2].relations = <<<<"modify", 3>>>>
    /\ doc.entities[3].relations = <<<<"modify", 2>>>>
    /\ anat_modify_anat = <<<<3, <<2>>>>>>

====
